---- MODULE Spec2Model ----
(***************************************************************************)
(* Model of the jasper-fetcher ingestion engine: the pagination loop       *)
(* (Fetcher.fetchPaginated), the streaming pipeline (Fetcher.fetchAndStore)*)
(* the row normaliser (SchemaHandler) and the storage adapters (MySQL and  *)
(* PostgreSQL) with the destination database they talk to.                 *)
(*                                                                         *)
(* JSON values are records [t |-> tag, v |-> payload]; the tag is compared *)
(* first, so values of different kinds never have their payloads compared. *)
(* A JSON object is the ordered list of its [k, v] pairs (JavaScript keeps *)
(* insertion order).                                                       *)
(***************************************************************************)
EXTENDS Integers, Sequences, FiniteSets, TLC

(* ------------------------------ bounds -------------------------------- *)
\* pages the scripted server of Spec serves before it runs out of data
MaxPages == 2
\* records available on a finite server of SpecPaging
MaxAvail == 5
\* page sizes served by the servers of SpecPaging
MaxSize == 2
\* largest maxRetries argument passed to getWithRetry in SpecRetry
MaxRetries == 4
\* pages held by the largest one-record-per-page server of SpecStream
MaxStreamPages == 101
\* endpoints and date ranges an entry point iterates over in SpecMain
MaxEndpoints == 3
MaxRanges == 2
\* parent records passed to extractNestedData in SpecExtract
MaxRows == 3
\* fields of the records passed to flattenRow in SpecFlatten
MaxFields == 2
\* ensureConnected calls made on an adapter directly
MaxChecks == 3
\* runFetchJob calls the scheduler begins
MaxJobs == 3
\* the callers that share one adapter and call ensureTable at the same time
Callers == {1, 2}

(* ------------------------- program constants -------------------------- *)
PageLimit == 1000
batchSize == 100
connectionCheckInterval == 50

(* ----------------------------- JSON values ---------------------------- *)
Undefined == [t |-> "undef", v |-> 0]
Null == [t |-> "null", v |-> 0]
Num(n) == [t |-> "num", v |-> n]
Str(s) == [t |-> "str", v |-> s]
Bool(b) == [t |-> "bool", v |-> b]
Obj(pairs) == [t |-> "obj", v |-> pairs]
Arr(items) == [t |-> "arr", v |-> items]
KV(key, val) == [k |-> key, v |-> val]

IsArray(x) == x.t = "arr"
\* typeof x === 'object' : objects, arrays and null
TypeofObject(x) == x.t \in {"obj", "arr", "null"}
\* !x
Falsy(x) ==
  \/ x.t \in {"undef", "null"}
  \/ x.t = "num" /\ x.v = 0
  \/ x.t = "str" /\ x.v = ""
  \/ x.t = "bool" /\ x.v = FALSE

Keys(row) == [i \in 1..Len(row) |-> row[i].k]
KeySet(row) == {row[i].k : i \in 1..Len(row)}
HasKey(row, key) == \E i \in 1..Len(row) : row[i].k = key
\* row[key]
Get(row, key) ==
  IF HasKey(row, key)
    THEN row[CHOOSE i \in 1..Len(row) : row[i].k = key].v
    ELSE Undefined
\* a key already set keeps its value
PutKeepsFirst(row, key, val) ==
  IF HasKey(row, key) THEN row ELSE Append(row, KV(key, val))

\* row[key] = val : an existing key keeps its place, a new one goes last
Put(row, key, val) ==
  IF HasKey(row, key)
    THEN [i \in 1..Len(row) |-> IF row[i].k = key THEN KV(key, val) ELSE row[i]]
    ELSE Append(row, KV(key, val))

RECURSIVE Assign(_, _)
\* Object.assign(target, source)
Assign(target, source) ==
  IF Len(source) = 0 THEN target
  ELSE Assign(Put(target, source[1].k, source[1].v), Tail(source))

(* ------------------------------ strings ------------------------------- *)
Char(s, i) == SubSeq(s, i, i)
Digits == <<"0", "1", "2", "3", "4", "5", "6", "7", "8", "9">>
IsDigit(c) == \E d \in 1..10 : Digits[d] = c
DigitVal(c) == (CHOOSE d \in 1..10 : Digits[d] = c) - 1
Upper == <<"A","B","C","D","E","F","G","H","I","J","K","L","M",
           "N","O","P","Q","R","S","T","U","V","W","X","Y","Z">>
Lower == <<"a","b","c","d","e","f","g","h","i","j","k","l","m",
           "n","o","p","q","r","s","t","u","v","w","x","y","z">>
LowerChar(c) ==
  IF \E i \in 1..26 : Upper[i] = c
    THEN Lower[CHOOSE i \in 1..26 : Upper[i] = c]
    ELSE c

RECURSIVE toLowerCase(_)
\* String.prototype.toLowerCase
toLowerCase(s) ==
  IF Len(s) = 0 THEN ""
  ELSE LowerChar(Char(s, 1)) \o toLowerCase(SubSeq(s, 2, Len(s)))

RECURSIVE NatToStr(_)
NatToStr(n) ==
  IF n < 10 THEN Digits[n + 1]
  ELSE NatToStr(n \div 10) \o Digits[(n % 10) + 1]
\* String(n) for an integer n
ToStr(n) == IF n < 0 THEN "-" \o NatToStr(0 - n) ELSE NatToStr(n)

NaN == [nan |-> TRUE, n |-> 0]
RECURSIVE DigitsPrefix(_, _, _)
\* value of the longest run of digits of s starting at position i, acc so far
DigitsPrefix(s, i, acc) ==
  IF i <= Len(s) /\ IsDigit(Char(s, i))
    THEN DigitsPrefix(s, i + 1, acc * 10 + DigitVal(Char(s, i)))
    ELSE acc
RECURSIVE SkipSpaces(_, _)
SkipSpaces(s, i) ==
  IF i <= Len(s) /\ Char(s, i) = " " THEN SkipSpaces(s, i + 1) ELSE i
\* parseInt(s, 10) of a string
ParseIntStr(s) ==
  LET i == SkipSpaces(s, 1)
      neg == i <= Len(s) /\ Char(s, i) = "-"
      j == IF i <= Len(s) /\ Char(s, i) \in {"-", "+"} THEN i + 1 ELSE i
  IN IF j <= Len(s) /\ IsDigit(Char(s, j))
       THEN [nan |-> FALSE,
             n |-> IF neg THEN 0 - DigitsPrefix(s, j, 0) ELSE DigitsPrefix(s, j, 0)]
       ELSE NaN
\* parseInt(x, 10) of a JSON value: the argument is converted to a string first
parseInt(x) ==
  CASE x.t = "str" -> ParseIntStr(x.v)
    [] x.t = "num" -> ParseIntStr(ToStr(x.v))
    [] OTHER -> NaN
\* parseInt(x, 10) || 1
ParseIntOrOne(x, fallback) ==
  LET p == parseInt(x) IN IF p.nan \/ p.n = 0 THEN 1 ELSE p.n
\* parseInt(x, 10) || fallback
ParseIntOr(x, fallback) ==
  LET p == parseInt(x) IN IF p.nan \/ p.n = 0 THEN fallback ELSE p.n
\* Math.ceil(a / b) for a > 0, b > 0
CeilDiv(a, b) == (a + b - 1) \div b

(* --------------------------- Row Normalizer --------------------------- *)
RECURSIVE flattenRowAlwaysPrefix(_, _)
\* the prefix and its underscore are put in front of every key, top level too
flattenRowAlwaysPrefix(row, prefix) ==
  IF Len(row) = 0 THEN <<>>
  ELSE
    LET last == row[Len(row)]
        result == flattenRowAlwaysPrefix(SubSeq(row, 1, Len(row) - 1), prefix)
        newKey == prefix \o "_" \o last.k
    IN IF last.v.t = "obj" THEN Assign(result, flattenRowAlwaysPrefix(last.v.v, newKey))
       ELSE IF ~IsArray(last.v) THEN Put(result, newKey, last.v)
       ELSE result

RECURSIVE flattenRow(_, _)
\* SchemaHandler.flattenRow(row, prefix): row is the pair list of an object
flattenRow(row, prefix) ==
  IF Len(row) = 0 THEN <<>>
  ELSE
    LET last == row[Len(row)]
        result == flattenRow(SubSeq(row, 1, Len(row) - 1), prefix)
        newKey == IF prefix # "" THEN prefix \o "_" \o last.k ELSE last.k
    IN IF last.v.t = "obj" THEN Assign(result, flattenRow(last.v.v, newKey))
       ELSE IF ~IsArray(last.v) THEN Put(result, newKey, last.v)
       ELSE result

\* data.map((row) => this.schema.flattenRow(row))
FlattenAll(rows) == [i \in 1..Len(rows) |-> flattenRow(rows[i].v, "")]

\* the row's parent key is read from the nested item
NestedRowFromItem(item, row, parentKey) ==
  Obj(Put(IF item.t = "obj" THEN item.v ELSE <<>>,
          "_parent_" \o parentKey,
          IF item.t = "obj" THEN Get(item.v, parentKey) ELSE Undefined))

\* { ...item } : the own enumerable properties of item; a string or an array
\* spreads into its indices, null and other primitives into nothing
Spread(item) ==
  CASE item.t = "obj" -> item.v
    [] item.t = "str" ->
         [j \in 1..Len(item.v) |-> KV(NatToStr(j - 1), Str(Char(item.v, j)))]
    [] item.t = "arr" ->
         [j \in 1..Len(item.v) |-> KV(NatToStr(j - 1), item.v[j])]
    [] OTHER -> <<>>

\* { ...item, [`_parent_${parentKey}`]: row[parentKey] }
NestedRow(item, row, parentKey) ==
  Obj(Put(Spread(item), "_parent_" \o parentKey, Get(row.v, parentKey)))

\* lines 22-31: what one parent row pushes onto nestedRows
NestedOf(row, parentKey, nestedKey) ==
  LET nested == Get(row.v, nestedKey)
  IN IF IsArray(nested)
       THEN [j \in 1..Len(nested.v) |-> NestedRow(nested.v[j], row, parentKey)]
       ELSE <<>>

RECURSIVE extractNestedData(_, _, _)
\* SchemaHandler.extractNestedData(rows, parentKey, nestedKey): the pushes of
\* the rows in order (the list is halved to keep the evaluation shallow)
extractNestedData(rows, parentKey, nestedKey) ==
  IF Len(rows) = 0 THEN <<>>
  ELSE IF Len(rows) = 1 THEN NestedOf(rows[1], parentKey, nestedKey)
  ELSE LET half == Len(rows) \div 2
       IN extractNestedData(SubSeq(rows, 1, half), parentKey, nestedKey)
          \o extractNestedData(SubSeq(rows, half + 1, Len(rows)), parentKey, nestedKey)

(* --------------------------- Type Inferencer -------------------------- *)
AllDigits(s, from, to) == \A i \in from..to : IsDigit(Char(s, i))
\* /^\d{4}-\d{2}-\d{2}/ matches a prefix of s
DatePrefix(s) ==
  /\ Len(s) >= 10
  /\ AllDigits(s, 1, 4) /\ Char(s, 5) = "-"
  /\ AllDigits(s, 6, 7) /\ Char(s, 8) = "-"
  /\ AllDigits(s, 9, 10)
\* /^\d{4}-\d{2}-\d{2}$/
IsDateOnly(s) == Len(s) = 10 /\ DatePrefix(s)
\* /^\d{4}-\d{2}-\d{2}[T ]\d{2}:\d{2}/
IsDateTime(s) ==
  /\ Len(s) >= 16
  /\ DatePrefix(s)
  /\ Char(s, 11) \in {"T", " "}
  /\ AllDigits(s, 12, 13) /\ Char(s, 14) = ":"
  /\ AllDigits(s, 15, 16)

\* PostgreSQL numbers typed as integers
inferColumnTypeInteger(d, value) ==
  CASE value.t \in {"null", "undef"} -> "TEXT"
    [] value.t = "bool" -> IF d = "mysql" THEN "TINYINT(1)" ELSE "BOOLEAN"
    [] value.t = "num" -> IF d = "mysql" THEN "DECIMAL(20,6)" ELSE "BIGINT"
    [] value.t = "str" ->
         IF IsDateOnly(value.v) THEN "DATE"
         ELSE IF IsDateTime(value.v) THEN (IF d = "mysql" THEN "DATETIME" ELSE "TIMESTAMP")
         ELSE IF Len(value.v) > 255 THEN "TEXT"
         ELSE "VARCHAR(255)"
    [] OTHER -> IF d = "mysql" THEN "JSON" ELSE "JSONB"

\* the date pattern without its end anchor
inferColumnTypeUnanchored(d, value) ==
  CASE value.t \in {"null", "undef"} -> "TEXT"
    [] value.t = "bool" -> IF d = "mysql" THEN "TINYINT(1)" ELSE "BOOLEAN"
    [] value.t = "num" -> IF d = "mysql" THEN "DECIMAL(20,6)" ELSE "NUMERIC(20,6)"
    [] value.t = "str" ->
         IF DatePrefix(value.v) THEN "DATE"
         ELSE IF IsDateTime(value.v) THEN (IF d = "mysql" THEN "DATETIME" ELSE "TIMESTAMP")
         ELSE IF Len(value.v) > 255 THEN "TEXT"
         ELSE "VARCHAR(255)"
    [] OTHER -> IF d = "mysql" THEN "JSON" ELSE "JSONB"

\* MySQLAdapter.inferColumnType / PostgresAdapter.inferColumnType
inferColumnType(d, value) ==
  CASE value.t \in {"null", "undef"} -> "TEXT"
    [] value.t = "bool" -> IF d = "mysql" THEN "TINYINT(1)" ELSE "BOOLEAN"
    [] value.t = "num" -> IF d = "mysql" THEN "DECIMAL(20,6)" ELSE "NUMERIC(20,6)"
    [] value.t = "str" ->
         IF IsDateOnly(value.v) THEN "DATE"
         ELSE IF IsDateTime(value.v) THEN (IF d = "mysql" THEN "DATETIME" ELSE "TIMESTAMP")
         ELSE IF Len(value.v) > 255 THEN "TEXT"
         ELSE "VARCHAR(255)"
    [] OTHER -> IF d = "mysql" THEN "JSON" ELSE "JSONB"

(* ------------------------ destination database ------------------------ *)
\* A table is [exists, cols]: cols is the list of [name, type] in table order.
Col(n, ty) == [name |-> n, type |-> ty]
\* Identifier resolution of the database: MySQL column names are case
\* insensitive; PostgreSQL identifiers written in double quotes (as both the
\* DDL and the INSERT of the adapter write them) are case sensitive.
SameColumn(d, a, b) == IF d = "mysql" THEN toLowerCase(a) = toLowerCase(b) ELSE a = b
HasColumn(d, cols, key) == \E i \in 1..Len(cols) : SameColumn(d, cols[i].name, key)
NoDuplicate(d, cols) ==
  \A i, j \in 1..Len(cols) : i # j => ~SameColumn(d, cols[i].name, cols[j].name)

\* the column list of createTable's CREATE TABLE statement
CreateColumns(d, sampleRow) ==
  LET kept == SelectSeq(sampleRow, LAMBDA p : ~TypeofObject(p.v) \/ p.v.t = "null")
  IN <<Col("_id", IF d = "mysql" THEN "BIGINT" ELSE "BIGSERIAL")>>
     \o [i \in 1..Len(kept) |-> Col(kept[i].k, inferColumnType(d, kept[i].v))]
     \o <<Col("_fetched_at", IF d = "mysql" THEN "DATETIME" ELSE "TIMESTAMP")>>

\* new Set(existingColumns.map((c) => c.name.toLowerCase()))
ExistingNames(cols) == {toLowerCase(cols[i].name) : i \in 1..Len(cols)}

\* the keys addMissingColumns issues ADD COLUMN for, in order, given the
\* lower-cased names getColumns returned
MissingKeys(sampleRow, names) ==
  SelectSeq(sampleRow,
            LAMBDA p : p.v.t \notin {"obj", "arr"} /\ toLowerCase(p.k) \notin names)

\* the column list of insertBatch's INSERT statement: the keys of rows[0]
InsertColumns(rows) ==
  LET kept == SelectSeq(rows[1], LAMBDA p : ~(TypeofObject(p.v) /\ p.v.t # "null"))
  IN [i \in 1..Len(kept) |-> kept[i].k]
\* the values insertBatch binds for one row
InsertValues(columns, row) ==
  [i \in 1..Len(columns) |->
     KV(columns[i],
        IF Get(row, columns[i]).t = "undef" THEN Null ELSE Get(row, columns[i]))]

(* ------------------------ endpoint configuration ---------------------- *)
\* the warehouse endpoint of the endpoint definitions: one nested table
tableName == "jasper_warehouse"
nestedTables ==
  <<[nestedKey |-> "locations",
     childTable |-> "jasper_warehouse_location",
     parentKey |-> "warehouse_code"]>>
childTable == nestedTables[1].childTable
TableNames == {tableName, childTable}

(* --------------------------- server responses ------------------------- *)
\* a wrapped response { data, current_page, count }; an Undefined field is absent
Wrapped(data, currentPage, count) ==
  Obj(SelectSeq(<<KV("data", data), KV("current_page", currentPage), KV("count", count)>>,
                LAMBDA p : p.v.t # "undef"))

\* records served to the pipeline (Spec)
rPlain == Obj(<<KV("warehouse_code", Str("W2"))>>)
rNested ==
  Obj(<<KV("warehouse_code", Str("W1")),
        KV("locations", Arr(<<Obj(<<KV("zone", Str("A"))>>), Obj(<<KV("zone", Str("B"))>>)>>))>>)
rNotes == Obj(<<KV("warehouse_code", Str("W3")), KV("notes", Str("late"))>>)
rCase == Obj(<<KV("warehouse_code", Str("W4")), KV("Notes", Str("N"))>>)
\* a record whose nested rows carry a field the nested rows of rNested lack
rNestedBin ==
  Obj(<<KV("warehouse_code", Str("W5")),
        KV("locations", Arr(<<Obj(<<KV("zone", Str("C")), KV("bin", Str("7"))>>)>>))>>)
\* the pages of a server whose later pages bring new fields (SpecLate)
LateResponses ==
  {Wrapped(Arr(p), Undefined, Undefined) :
     p \in {<<>>, <<rPlain>>, <<rNotes>>, <<rNested>>, <<rNestedBin>>}}
Pages == {<<rPlain>>, <<rNested>>, <<rPlain, rNotes>>, <<rCase>>, <<rNotes>>}
ScriptResponses ==
  {Null, Arr(<<>>), Wrapped(Arr(<<>>), Undefined, Undefined),
   Wrapped(Null, Undefined, Undefined), rPlain}
  \cup {Arr(p) : p \in Pages}
  \cup {Wrapped(Arr(p), Undefined, Undefined) : p \in Pages}

\* servers that answer every call with the same sequence of responses
FixedServers ==
  {[kind |-> "fixed", pages |-> ps] :
     ps \in UNION {[1..n -> ScriptResponses] : n \in 1..MaxPages}}

\* records served to the pagination loop alone (SpecPaging): record number n
Rec(n) == Obj(<<KV("id", Num(n))>>)
Inf == 0 - 1
\* the records of page p of a server holding avail records in pages of size
PageOf(avail, size, p) ==
  LET first == (p - 1) * size + 1
      last == IF avail = Inf \/ p * size <= avail THEN p * size ELSE avail
  IN [j \in 1..(IF last >= first THEN last - first + 1 ELSE 0) |-> Rec(first + j - 1)]
\* how a server writes a number n into a field of its response
Field(mode, n) ==
  CASE mode = "str" -> Str(ToStr(n))
    [] mode = "num" -> Num(n)
    [] mode = "garbage" -> Str("n/a")
    [] mode = "zero" -> Str("0")
    [] mode = "negative" -> Num(0 - 1)
    [] mode = "first" -> Str("1")
    [] mode = "huge" -> Str("100000")
    [] OTHER -> Undefined
\* the response of a paging server to the request for page p
PagingResponse(sv, p) ==
  Wrapped(Arr(PageOf(sv.avail, sv.size, p)),
          Field(sv.cp, p),
          Field(sv.count, IF sv.avail = Inf THEN 0 ELSE sv.avail))

\* the server of the specification's scenario: 250 records in pages of 100
ScenarioServer == [kind |-> "paging", avail |-> 250, size |-> 100, cp |-> "str", count |-> "str"]

PagingServers ==
  [kind : {"paging"}, avail : 0..MaxAvail, size : 1..MaxSize,
   cp : {"str", "num", "absent", "garbage", "first"},
   count : {"str", "num", "absent", "garbage", "zero", "negative"}]
  \cup [kind : {"paging"}, avail : {Inf}, size : 1..MaxSize,
        cp : {"str", "absent"}, count : {"absent", "zero", "huge"}]

\* a page that insertBatch takes in two batches
BigPage == batchSize + 1
\* servers of the streaming pipeline over many pages (SpecStream): one record
\* per page with the count absent or truthful, and one server of big pages
StreamServers ==
  [kind : {"paging"}, avail : {0, 1, 49, 50, MaxStreamPages}, size : {1},
   cp : {"str"}, count : {"absent", "str"}]
  \cup {[kind |-> "paging", avail |-> 2 * BigPage, size |-> BigPage,
         cp |-> "str", count |-> "absent"]}

(* -------------------------------- state ------------------------------ *)
VARIABLES
  server,          \* the remote API: [kind |-> "script"] or a paging server
  dialect,         \* "mysql" or "postgres": the adapter the factory returned
  tables,          \* destination schema: table name -> [exists, cols]
  stored,          \* destination data: table name -> rows this invocation inserted
  pool,            \* adapter.pool: 0 = null, n > 0 = the n-th pool created
  pools,           \* the pools created so far, in order: "open" or "closed"
  poolLog,         \* history: the pool calls of ensureConnected, in order
  handed,          \* history: the records passed to the page callback, in order
  firstResult,     \* what an earlier fetchPaginated call on the same server returned
  firstHanded,     \* the records that earlier call passed to its callback
  sshEnabled,      \* scheduler: SSH_TUNNEL_ENABLED is 'true'
  nowFlag,         \* scheduler: the --now argument was given
  jobPc,           \* scheduler: job -> where that runFetchJob call is ("none" = not begun)
  jobTunnel,       \* scheduler: job -> the tunnel its adapter connects through (0 = none)
  activeTunnel,    \* ssh-tunnel module state: the tunnel tunnelServer refers to (0 = null)
  openTunnels,     \* the tunnels that are listening
  ensPc,           \* concurrent ensureTable calls: caller -> where its call is
  ensRow,          \* caller -> the representative row it passed
  ensMissing,      \* caller -> the keys its addMissingColumns has still to add
  pc,              \* where the invocation is suspended
  streaming,       \* fetchPaginated was given an onPageFetched callback
  pageNumber, hasMore, totalFetched, allData,   \* locals of fetchPaginated
  response, isPaginated, pageData,              \* locals of the loop body
  connRet,         \* which ensureConnected call is running: "loop" or "final"
  tableCreated, totalStored, allNestedData,     \* locals of fetchAndStore
  phase,           \* "parent" (pagination running) or "nested" (line 398 on)
  flattenedData, i, nestedIdx,                  \* the insert loops
  ensTable, sampleRow, missing,                 \* the running ensureTable call
  ensCols,         \* history: the table's columns when that call began
  result,          \* what fetchPaginated returned (Undefined until it returns)
  requested,       \* history: the page_number of every request issued, in order
  served,          \* history: records the server has put in its responses
  tables0,         \* history: the destination schema when the invocation began
  ensured,         \* history: table -> keys of the rows of its completed ensureTable calls
  fields,          \* history: flattened keys of the parent records handed to the callback
  log,             \* history: page requests and storage calls, in order
  passedRetries,   \* getWithRetry: the maxRetries argument passed (Undefined = omitted)
  maxRetries, attempt, lastError,               \* getWithRetry: parameter and locals
  rpc,             \* getWithRetry: "loop", "returned" or "raised"
  outcome,         \* getWithRetry: the value returned or the error raised
  calls,           \* history: the outcome of every get call of getWithRetry, in order
  slept,           \* history: the delays (ms) getWithRetry has waited, in order
  entry,           \* the entry point running: "main" (CLI) or "job" (scheduler), "" = none
  endpointsToFetch, dateRanges,                 \* what the entry point iterates over
  epIdx, rgIdx,    \* positions of its two loops
  mpc,             \* where the entry point is
  attempted,       \* history: the fetchAndStore calls of the entry point, in order
  acquired,        \* history: connect has returned (the pool was created)
  released,        \* history: disconnect has been called
  argRows, argParentKey, argNestedKey,          \* arguments of an extractNestedData call
  nestedRows,      \* what that call returned (Undefined until it returns)
  fnArg,           \* the argument of a call of a pure helper (flattenRow, inferColumnType)
  fnOut            \* what the successive calls on it returned, in order

vars ==
  <<server, dialect, tables, stored, pool, pools, poolLog, pc, streaming, pageNumber, hasMore,
    totalFetched, allData, response, isPaginated, pageData, connRet, tableCreated,
    totalStored, allNestedData, phase, flattenedData, i, nestedIdx, ensTable,
    sampleRow, missing, ensCols, result, served, tables0, ensured, fields, log,
    requested, passedRetries, maxRetries, attempt, lastError, rpc, outcome, calls, slept,
    entry, endpointsToFetch, dateRanges, epIdx, rgIdx, mpc, attempted, acquired, released,
    argRows, argParentKey, argNestedKey, nestedRows, fnArg, fnOut, handed, firstResult,
    firstHanded, sshEnabled, nowFlag, jobPc, jobTunnel, activeTunnel, openTunnels,
    ensPc, ensRow, ensMissing>>

dbVars == <<tables, stored, pool, pools, poolLog>>
loopVars == <<pageNumber, hasMore, totalFetched, allData, response, isPaginated, pageData>>
storeVars == <<tableCreated, totalStored, allNestedData, phase, flattenedData, i, nestedIdx>>
ensVars == <<ensTable, sampleRow, missing, ensCols>>
retryVars == <<passedRetries, maxRetries, attempt, lastError, rpc, outcome, calls, slept>>
mainVars ==
  <<entry, endpointsToFetch, dateRanges, epIdx, rgIdx, mpc, attempted, acquired, released>>
extractVars == <<argRows, argParentKey, argNestedKey, nestedRows>>
callVars == <<fnArg, fnOut>>
\* what no step of a fetchPaginated or fetchAndStore invocation touches
schedVars == <<sshEnabled, nowFlag, jobPc, jobTunnel, activeTunnel, openTunnels>>
raceVars == <<ensPc, ensRow, ensMissing>>
coreEnv ==
  <<server, dialect, streaming, tables0, retryVars, mainVars, extractVars, callVars,
    firstResult, firstHanded, schedVars, raceVars>>
envVars == <<coreEnv, handed>>
\* the whole state of a fetch
fetchVars ==
  <<server, dialect, streaming, tables0, dbVars, loopVars, storeVars, ensVars, pc,
    connRet, result, requested, served, ensured, fields, log, handed, firstResult,
    firstHanded, schedVars, raceVars>>
\* what no step of the scheduler touches
schedEnv ==
  <<server, dialect, streaming, tables0, dbVars, loopVars, storeVars, ensVars, pc,
    connRet, result, requested, served, ensured, fields, log, handed, firstResult,
    firstHanded, raceVars, retryVars, mainVars, extractVars, callVars>>
\* what no step of two concurrent ensureTable calls touches
raceEnv ==
  <<server, dialect, streaming, tables0, stored, pool, pools, poolLog, loopVars,
    storeVars, ensVars, pc, connRet, result, requested, served, ensured, fields, log,
    handed, firstResult, firstHanded, schedVars, retryVars, mainVars, extractVars,
    callVars, ensRow>>

\* a log entry: a page request (page > 0) or a storage call on a table
Entry(op, table, ok) == [op |-> op, table |-> table, page |-> 0, key |-> "", ok |-> ok]
RequestEntry(p, ok) == [op |-> "request", table |-> "", page |-> p, key |-> "", ok |-> ok]
AddEntry(table, key, ok) == [op |-> "addColumn", table |-> table, page |-> 0, key |-> key, ok |-> ok]

\* the responses the server may give to the request for page p
ResponsesAt(p) ==
  IF server.kind = "script"
    THEN (IF p <= MaxPages THEN ScriptResponses
          ELSE {Wrapped(Arr(<<>>), Undefined, Undefined)})
  ELSE IF server.kind = "fixed"
    THEN (IF p <= Len(server.pages) THEN {server.pages[p]}
          ELSE {Wrapped(Arr(<<>>), Undefined, Undefined)})
  ELSE IF server.kind = "late"
    THEN (IF p <= MaxPages THEN LateResponses
          ELSE {Wrapped(Arr(<<>>), Undefined, Undefined)})
    ELSE {PagingResponse(server, p)}

\* the number of records a response carries
RecordsIn(r) ==
  CASE r.t = "arr" -> Len(r.v)
    [] r.t = "obj" /\ HasKey(r.v, "data") ->
         (LET d == Get(r.v, "data")
          IN IF d.t = "arr" THEN Len(d.v) ELSE IF d.t = "obj" THEN 1 ELSE 0)
    [] r.t = "obj" -> 1
    [] OTHER -> 0

(* --------------------------- fetchPaginated --------------------------- *)
\* only a missing payload ends the loop
IsEmptyDataFalsyOnly(data) == Falsy(data)

\* line 294: !data || (Array.isArray(data) && data.length === 0)
IsEmptyData(data) == Falsy(data) \/ (IsArray(data) /\ Len(data.v) = 0)

\* the wrapped shape recognised only when data is truthy and not empty
ClassifyTruthyData(r) ==
  IF IsArray(r) THEN [data |-> r, isPaginated |-> FALSE, hasMore |-> FALSE]
  ELSE IF ~IsEmptyData(Get(r.v, "data"))
    THEN [data |-> Get(r.v, "data"), isPaginated |-> TRUE, hasMore |-> TRUE]
  ELSE [data |-> r, isPaginated |-> FALSE, hasMore |-> FALSE]

\* a direct array leaves hasMore as it was
ClassifyArrayPaged(r) ==
  IF IsArray(r) THEN [data |-> r, isPaginated |-> FALSE, hasMore |-> TRUE]
  ELSE IF Get(r.v, "data").t # "undef"
    THEN [data |-> Get(r.v, "data"), isPaginated |-> TRUE, hasMore |-> TRUE]
  ELSE [data |-> r, isPaginated |-> FALSE, hasMore |-> FALSE]

\* lines 277-292: the page payload of a response, whether the response is of
\* the paginated shape, and whether the shape allows a further page
Classify(r) ==
  IF IsArray(r) THEN [data |-> r, isPaginated |-> FALSE, hasMore |-> FALSE]
  ELSE IF Get(r.v, "data").t # "undef"
    THEN [data |-> Get(r.v, "data"), isPaginated |-> TRUE, hasMore |-> TRUE]
  ELSE [data |-> r, isPaginated |-> FALSE, hasMore |-> FALSE]

\* without a usable count the page is taken for the last one
HasMoreAfterNoCountStops(r, page, size) ==
  LET currentPage == ParseIntOr(Get(r.v, "current_page"), page)
      totalCount == ParseIntOr(Get(r.v, "count"), 0)
  IN IF totalCount > 0 /\ size > 0
       THEN currentPage < CeilDiv(totalCount, size) /\ size > 0
       ELSE FALSE

\* lines 312-325: hasMore after a page of the paginated shape
HasMoreAfter(r, page, size) ==
  LET currentPage == ParseIntOr(Get(r.v, "current_page"), page)
      totalCount == ParseIntOr(Get(r.v, "count"), 0)
  IN IF totalCount > 0 /\ size > 0
       THEN currentPage < CeilDiv(totalCount, size) /\ size > 0
       ELSE size > 0

\* the ceiling tested one page too late
LimitReachedLate(p) == p > PageLimit + 1
\* line 334: pageNumber > 1000
LimitReached(p) == p > PageLimit

\* where control goes when the while loop is left: the final connection check
\* of streaming mode (line 341), or the return of allData (line 347)
LeaveLoop ==
  IF streaming
    THEN /\ pc' = "ensure_conn" /\ connRet' = "final" /\ result' = result
    ELSE /\ pc' = "done" /\ connRet' = connRet /\ result' = Arr(allData')

\* lines 334-338 and the loop condition, with the new values of the locals
LoopOn ==
  IF ~LimitReached(pageNumber') /\ hasMore'
    THEN pc' = "request" /\ UNCHANGED <<connRet, result>>
    ELSE LeaveLoop

\* lines 263-310: one request (getWithRetry, all its attempts) and what the
\* loop body does with the response up to the page callback
Request ==
  /\ pc = "request"
  /\ \/ \* every attempt failed: getWithRetry raises, fetchAndStore re-raises
        /\ server.kind = "script"
        /\ pc' = "failed"
        /\ log' = Append(log, RequestEntry(pageNumber, FALSE))
        /\ requested' = Append(requested, pageNumber)
        /\ UNCHANGED <<envVars, dbVars, loopVars, storeVars, ensVars, connRet,
                       result, served, ensured, fields>>
     \/ \E r \in ResponsesAt(pageNumber) :
          /\ log' = Append(log, RequestEntry(pageNumber, TRUE))
          /\ requested' = Append(requested, pageNumber)
          /\ served' = served + RecordsIn(r)
          /\ response' = r
          /\ UNCHANGED <<coreEnv, dbVars, storeVars, ensVars, pageNumber, ensured, fields>>
          /\ IF Falsy(r)
               THEN \* lines 269-272: return []
                    /\ result' = Arr(<<>>)
                    /\ pc' = IF streaming THEN "after_fetch" ELSE "done"
                    /\ UNCHANGED <<hasMore, totalFetched, allData, isPaginated,
                                   pageData, connRet, handed>>
               ELSE LET c == Classify(r) IN
                    /\ isPaginated' = c.isPaginated
                    /\ IF IsEmptyData(c.data)
                         THEN \* lines 294-297: hasMore = false; continue
                              /\ hasMore' = FALSE
                              /\ UNCHANGED <<totalFetched, allData, pageData, handed>>
                              /\ LeaveLoop
                         ELSE /\ hasMore' = c.hasMore
                              /\ pageData' = IF IsArray(c.data) THEN c.data.v ELSE <<c.data>>
                              /\ totalFetched' = totalFetched + Len(pageData')
                              /\ UNCHANGED <<connRet, result>>
                              /\ IF streaming
                                   THEN \* line 307: onPageFetched(pageData, pageNumber)
                                        /\ pc' = "callback" /\ allData' = allData
                                        /\ handed' = handed \o pageData'
                                   ELSE \* line 310: allData.push(...pageData)
                                        /\ pc' = "decide" /\ allData' = allData \o pageData'
                                        /\ handed' = handed

\* the pagination decision without pageNumber++
DecideNoIncrement ==
  /\ pc = "decide"
  /\ hasMore' = IF isPaginated
                  THEN HasMoreAfter(response, pageNumber, Len(pageData))
                  ELSE hasMore
  /\ pc' = IF hasMore' THEN "request" ELSE "done"
  /\ result' = IF hasMore' THEN result ELSE Arr(allData)
  /\ UNCHANGED <<envVars, dbVars, pageNumber, totalFetched, allData, response,
                 isPaginated, pageData, storeVars, ensVars, served, ensured, fields,
                 log, requested, connRet>>

\* lines 312-337: the pagination decision after the page has been processed
Decide ==
  /\ pc = "decide"
  /\ UNCHANGED requested
  /\ hasMore' = IF isPaginated
                  THEN HasMoreAfter(response, pageNumber, Len(pageData))
                  ELSE hasMore
  /\ pageNumber' = pageNumber + 1
  /\ UNCHANGED <<envVars, dbVars, totalFetched, allData, response, isPaginated,
                 pageData, storeVars, ensVars, served, ensured, fields, log>>
  /\ IF streaming /\ pageNumber' % connectionCheckInterval = 0
       THEN pc' = "ensure_conn" /\ connRet' = "loop" /\ result' = result
       ELSE LoopOn

\* a pool call of the adapter: the probe, pool.end() or the creation of a pool
PoolCall(op, id, ok) == [op |-> op, pool |-> id, ok |-> ok]

\* the pool is replaced without being closed
ensureConnectedNoEnd(isAlive, endOk) ==
  LET fresh == Len(pools) + 1 IN
  IF pool = 0
    THEN /\ pool' = fresh
         /\ pools' = Append(pools, "open")
         /\ poolLog' = Append(poolLog, PoolCall("createPool", fresh, TRUE))
  ELSE IF isAlive
    THEN /\ pools[pool] = "open"
         /\ UNCHANGED <<pool, pools>>
         /\ poolLog' = Append(poolLog, PoolCall("query", pool, TRUE))
  ELSE /\ pool' = fresh
       /\ pools' = Append(pools, "open")
       /\ poolLog' = poolLog \o <<PoolCall("query", pool, FALSE),
                                  PoolCall("createPool", fresh, TRUE)>>

\* adapter lines 249-274 (MySQL) and 22-47 (PostgreSQL): ensureConnected with
\* its probe answering isAlive and pool.end() resolving (endOk) or rejecting;
\* a resolved end() leaves the old pool closed, a rejected one is ignored
ensureConnected(isAlive, endOk) ==
  LET fresh == Len(pools) + 1 IN
  IF pool = 0
    THEN \* lines 260-263: connect() and return
         /\ pool' = fresh
         /\ pools' = Append(pools, "open")
         /\ poolLog' = Append(poolLog, PoolCall("createPool", fresh, TRUE))
  ELSE IF isAlive
    THEN \* SELECT 1 is answered only through an open pool
         /\ pools[pool] = "open"
         /\ UNCHANGED <<pool, pools>>
         /\ poolLog' = Append(poolLog, PoolCall("query", pool, TRUE))
  ELSE \* lines 265-273: end() inside try/catch, then connect()
       /\ pool' = fresh
       /\ pools' = Append(IF endOk THEN [pools EXCEPT ![pool] = "closed"] ELSE pools,
                          "open")
       /\ poolLog' = poolLog \o <<PoolCall("query", pool, FALSE),
                                  PoolCall("end", pool, endOk),
                                  PoolCall("createPool", fresh, TRUE)>>

\* the outcomes of the probe and of pool.end() that make a difference
PoolOutcomes ==
  {o \in [isAlive : BOOLEAN, endOk : BOOLEAN] :
     /\ pool = 0 => (o.isAlive /\ o.endOk)
     /\ o.isAlive => o.endOk}

\* ensureConnected (adapter lines 259-274), called at line 331 or line 342
EnsureConnected ==
  /\ pc = "ensure_conn"
  /\ UNCHANGED requested
  /\ \E o \in PoolOutcomes : ensureConnected(o.isAlive, o.endOk)
  /\ log' = Append(log, Entry("ensureConnected", "", TRUE))
  /\ IF connRet = "loop"
       THEN /\ UNCHANGED <<pageNumber, hasMore>> /\ LoopOn
       ELSE \* line 347: return totalFetched
            /\ pc' = "after_fetch" /\ result' = Num(totalFetched)
            /\ UNCHANGED connRet
  /\ UNCHANGED <<envVars, tables, stored, loopVars, storeVars, ensVars, served, ensured,
                 fields>>

\* ensureConnected called on an adapter outside a fetch
EnsureConnectedCall ==
  /\ pc = "adapter"
  /\ Len(log) < MaxChecks
  /\ \E o \in PoolOutcomes : ensureConnected(o.isAlive, o.endOk)
  /\ log' = Append(log, Entry("ensureConnected", "", TRUE))
  /\ UNCHANGED <<envVars, tables, stored, loopVars, storeVars, ensVars, served, ensured,
                 fields, pc, connRet, result, requested>>

\* line 307 with a callback that only takes the page: it returns
CallbackReturns ==
  /\ pc = "callback"
  /\ pc' = "decide"
  /\ UNCHANGED <<envVars, dbVars, loopVars, storeVars, ensVars, connRet, result,
                 requested, served, ensured, fields, log>>

\* fetchPaginated has returned in streaming mode; it is called again on the
\* same endpoint without a callback (lines 255-258: its locals start anew)
SecondCall ==
  /\ pc = "after_fetch" /\ streaming
  /\ firstResult' = result /\ firstHanded' = handed
  /\ streaming' = FALSE
  /\ pc' = "request"
  /\ pageNumber' = 1 /\ hasMore' = TRUE /\ totalFetched' = 0 /\ allData' = <<>>
  /\ response' = Undefined /\ isPaginated' = FALSE /\ pageData' = <<>>
  /\ result' = Undefined /\ requested' = <<>> /\ served' = 0 /\ handed' = <<>>
  /\ UNCHANGED <<server, dialect, tables0, retryVars, mainVars, extractVars, callVars,
                 dbVars, storeVars, ensVars, connRet, ensured, fields, log, schedVars,
                 raceVars>>

(* ----------------------------- ensureTable --------------------------- *)
\* the table the running phase writes to
CurrentTable ==
  IF phase = "parent" THEN tableName ELSE allNestedData[nestedIdx].nested.childTable

\* ensureTable has returned to its caller (line 366 or line 403), which goes
\* on to its insert loop
AfterEnsure ==
  /\ tableCreated' = IF phase = "parent" THEN TRUE ELSE tableCreated
  /\ ensured' = IF Falsy(sampleRow) THEN ensured
                ELSE [ensured EXCEPT ![ensTable] = @ \cup KeySet(sampleRow.v)]
  /\ i' = 0
  /\ pc' = "insert"

\* SchemaHandler lines 9-12: the empty check and the tableExists query
EnsureTable ==
  /\ pc = "ensure"
  /\ UNCHANGED requested
  /\ UNCHANGED <<envVars, dbVars, loopVars, connRet, result, served, fields, ensTable,
                 sampleRow, totalStored, allNestedData, phase, flattenedData, nestedIdx>>
  /\ IF Falsy(sampleRow)
       THEN /\ AfterEnsure /\ UNCHANGED <<missing, ensCols, log>>
       ELSE \E ok \in BOOLEAN :
              /\ log' = Append(log, Entry("tableExists", ensTable, ok))
              /\ ensCols' = tables[ensTable]
              /\ UNCHANGED <<missing>>
              /\ IF ~ok THEN pc' = "failed" /\ UNCHANGED <<tableCreated, i, ensured>>
                 ELSE /\ pc' = IF tables[ensTable].exists THEN "get_columns" ELSE "create"
                      /\ UNCHANGED <<tableCreated, i, ensured>>

\* what CREATE TABLE IF NOT EXISTS does to a table; ok = FALSE: rejected
CreateTableSql(d, table, cols) ==
  IF table.exists THEN [ok |-> TRUE, table |-> table]
  ELSE IF ~NoDuplicate(d, cols) THEN [ok |-> FALSE, table |-> table]
  ELSE [ok |-> TRUE, table |-> [exists |-> TRUE, cols |-> cols]]

\* ALTER TABLE ... MODIFY in the place of ADD: an existing column is redefined
AddColumnSqlModify(d, table, col) ==
  IF ~table.exists THEN [ok |-> FALSE, table |-> table]
  ELSE IF HasColumn(d, table.cols, col.name)
    THEN [ok |-> TRUE,
          table |-> [exists |-> TRUE,
                     cols |-> [j \in 1..Len(table.cols) |->
                                 IF SameColumn(d, table.cols[j].name, col.name)
                                   THEN col ELSE table.cols[j]]]]
  ELSE [ok |-> TRUE, table |-> [exists |-> TRUE, cols |-> Append(table.cols, col)]]

\* what ALTER TABLE ADD COLUMN does to a table
AddColumnSql(d, table, col) ==
  IF ~table.exists \/ HasColumn(d, table.cols, col.name)
    THEN [ok |-> FALSE, table |-> table]
    ELSE [ok |-> TRUE, table |-> [exists |-> TRUE, cols |-> Append(table.cols, col)]]

\* createTable (adapter lines 317-332)
CreateTable ==
  /\ pc = "create"
  /\ UNCHANGED requested
  /\ UNCHANGED <<envVars, stored, pool, pools, poolLog, loopVars, connRet, result, served, fields, ensVars,
                 totalStored, allNestedData, phase, flattenedData, nestedIdx>>
  /\ \E ok \in BOOLEAN :
       LET r == CreateTableSql(dialect, tables[ensTable],
                               CreateColumns(dialect, sampleRow.v))
       IN /\ log' = Append(log, Entry("createTable", ensTable, ok /\ r.ok))
          /\ IF ok /\ r.ok
               THEN tables' = [tables EXCEPT ![ensTable] = r.table] /\ AfterEnsure
               ELSE pc' = "failed" /\ UNCHANGED <<tables, tableCreated, i, ensured>>

\* addMissingColumns, lines 335-336: getColumns (a failed query yields the
\* empty list) and the keys left to add
GetColumns ==
  /\ pc = "get_columns"
  /\ UNCHANGED requested
  /\ UNCHANGED <<envVars, dbVars, loopVars, connRet, result, served, fields, ensTable,
                 sampleRow, ensCols, totalStored, allNestedData, phase, flattenedData, nestedIdx>>
  /\ \E ok \in BOOLEAN :
       LET existingColumns == IF ok THEN tables[ensTable].cols ELSE <<>>
       IN /\ log' = Append(log, Entry("getColumns", ensTable, ok))
          /\ missing' = MissingKeys(sampleRow.v, ExistingNames(existingColumns))
          /\ IF Len(missing') = 0
               THEN AfterEnsure
               ELSE pc' = "add_column" /\ UNCHANGED <<tableCreated, i, ensured>>

\* addMissingColumns, lines 338-348: one ALTER TABLE ADD COLUMN
AddColumn ==
  /\ pc = "add_column"
  /\ UNCHANGED requested
  /\ UNCHANGED <<envVars, stored, pool, pools, poolLog, loopVars, connRet, result, served, fields, ensTable,
                 sampleRow, ensCols, totalStored, allNestedData, phase, flattenedData,
                 nestedIdx>>
  /\ \E ok \in BOOLEAN :
       LET key == missing[1]
           r == AddColumnSql(dialect, tables[ensTable],
                             Col(key.k, inferColumnType(dialect, key.v)))
       IN /\ log' = Append(log, AddEntry(ensTable, key.k, ok /\ r.ok))
          /\ IF ok /\ r.ok
               THEN /\ tables' = [tables EXCEPT ![ensTable] = r.table]
                    /\ missing' = Tail(missing)
                    /\ IF Len(missing') = 0
                         THEN AfterEnsure
                         ELSE pc' = "add_column" /\ UNCHANGED <<tableCreated, i, ensured>>
               ELSE pc' = "failed" /\ UNCHANGED <<tables, missing, tableCreated, i, ensured>>

(* ----------------------------- fetchAndStore -------------------------- *)
\* Start ensureTable(table, row) from the caller's position
CallEnsure(table, row) ==
  /\ ensTable' = table
  /\ sampleRow' = row
  /\ pc' = "ensure"

\* the page callback started but not awaited: the loop goes on at once
CallbackNotAwaited ==
  /\ pc = "callback"
  /\ pc' = "decide"
  /\ UNCHANGED <<envVars, dbVars, loopVars, connRet, result, served, log, ensVars,
                 storeVars, ensured, fields, requested>>

\* onPageFetched going to its insert loop without the ensureTable call
CallbackNoEnsure ==
  /\ pc = "callback"
  /\ UNCHANGED requested
  /\ UNCHANGED <<envVars, dbVars, loopVars, connRet, result, served, log, missing,
                 ensCols, tableCreated, totalStored, allNestedData, phase, nestedIdx,
                 ensured>>
  /\ IF Len(pageData) = 0
       THEN pc' = "decide" /\ UNCHANGED <<flattenedData, i, ensTable, sampleRow, fields>>
       ELSE /\ flattenedData' = FlattenAll(pageData)
            /\ fields' = fields \cup UNION {KeySet(flattenedData'[j]) : j \in 1..Len(pageData)}
            /\ i' = 0
            /\ pc' = "insert" /\ UNCHANGED <<ensTable, sampleRow>>

\* onPageFetched, lines 359-368: flatten the page, then ensureTable on the
\* first page or straight to the insert loop
Callback ==
  /\ pc = "callback"
  /\ UNCHANGED requested
  /\ UNCHANGED <<envVars, dbVars, loopVars, connRet, result, served, log, missing,
                 ensCols, tableCreated, totalStored, allNestedData, phase, nestedIdx,
                 ensured>>
  /\ IF Len(pageData) = 0
       THEN pc' = "decide" /\ UNCHANGED <<flattenedData, i, ensTable, sampleRow, fields>>
       ELSE /\ flattenedData' = FlattenAll(pageData)
            /\ fields' = fields \cup UNION {KeySet(flattenedData'[j]) : j \in 1..Len(pageData)}
            /\ i' = 0
            /\ IF ~tableCreated
                 THEN CallEnsure(tableName, Obj(flattenedData'[1]))
                 ELSE pc' = "insert" /\ UNCHANGED <<ensTable, sampleRow>>

\* what the INSERT of insertBatch does to a table's rows; ok = FALSE: rejected
InsertSql(d, table, rows, columns, batch) ==
  IF \/ ~table.exists
     \/ \E c \in 1..Len(columns) : ~HasColumn(d, table.cols, columns[c])
     \/ \E a, b \in 1..Len(columns) : a # b /\ SameColumn(d, columns[a], columns[b])
     \/ Len(columns) = 0 /\ d = "postgres"
    THEN [ok |-> FALSE, rows |-> rows]
    ELSE [ok |-> TRUE,
          rows |-> rows \o [j \in 1..Len(batch) |-> InsertValues(columns, batch[j])]]

\* flattenedData.slice(i, i + batchSize + 1)
BatchOverlapping ==
  SubSeq(flattenedData, i + 1,
         IF i + batchSize + 1 < Len(flattenedData) THEN i + batchSize + 1
         ELSE Len(flattenedData))

\* flattenedData.slice(i, i + batchSize)
Batch ==
  SubSeq(flattenedData, i + 1,
         IF i + batchSize < Len(flattenedData) THEN i + batchSize ELSE Len(flattenedData))

\* a rejected insert is issued again
InsertBatchRetried ==
  /\ pc = "insert"
  /\ UNCHANGED requested
  /\ UNCHANGED <<envVars, tables, pool, pools, poolLog, loopVars, connRet, result, served, ensVars,
                 tableCreated, allNestedData, phase, flattenedData, ensured, fields>>
  /\ \E ok \in BOOLEAN :
       LET r == InsertSql(dialect, tables[CurrentTable], stored[CurrentTable],
                          InsertColumns(Batch), Batch)
       IN /\ log' = Append(log, Entry("insertBatch", CurrentTable, ok /\ r.ok))
          /\ IF ok /\ r.ok
               THEN /\ stored' = [stored EXCEPT ![CurrentTable] = r.rows]
                    /\ i' = i + batchSize
                    /\ IF i' < Len(flattenedData)
                         THEN pc' = "insert" /\ UNCHANGED <<totalStored, nestedIdx>>
                         ELSE IF phase = "parent"
                           THEN /\ totalStored' = totalStored + Len(flattenedData)
                                /\ pc' = "collect"
                                /\ UNCHANGED nestedIdx
                           ELSE /\ nestedIdx' = nestedIdx + 1
                                /\ pc' = "nested"
                                /\ UNCHANGED totalStored
               ELSE pc' = "insert" /\ UNCHANGED <<stored, i, totalStored, nestedIdx>>

\* a rejected insert takes back the rows inserted before it
InsertBatchRollback ==
  /\ pc = "insert"
  /\ UNCHANGED requested
  /\ UNCHANGED <<envVars, tables, pool, pools, poolLog, loopVars, connRet, result, served, ensVars,
                 tableCreated, allNestedData, phase, flattenedData, ensured, fields>>
  /\ \E ok \in BOOLEAN :
       LET r == InsertSql(dialect, tables[CurrentTable], stored[CurrentTable],
                          InsertColumns(Batch), Batch)
       IN /\ log' = Append(log, Entry("insertBatch", CurrentTable, ok /\ r.ok))
          /\ IF ok /\ r.ok
               THEN /\ stored' = [stored EXCEPT ![CurrentTable] = r.rows]
                    /\ i' = i + batchSize
                    /\ IF i' < Len(flattenedData)
                         THEN pc' = "insert" /\ UNCHANGED <<totalStored, nestedIdx>>
                         ELSE IF phase = "parent"
                           THEN /\ totalStored' = totalStored + Len(flattenedData)
                                /\ pc' = "collect"
                                /\ UNCHANGED nestedIdx
                           ELSE /\ nestedIdx' = nestedIdx + 1
                                /\ pc' = "nested"
                                /\ UNCHANGED totalStored
               ELSE /\ pc' = "failed"
                    /\ stored' = [stored EXCEPT ![CurrentTable] = <<>>]
                    /\ UNCHANGED <<i, totalStored, nestedIdx>>

\* one insertBatch call of an insert loop (lines 372-376 and 405-408; adapter
\* lines 351-371) and, when it was the loop's last, the step after the loop
InsertBatch ==
  /\ pc = "insert"
  /\ UNCHANGED requested
  /\ UNCHANGED <<envVars, tables, pool, pools, poolLog, loopVars, connRet, result, served, ensVars,
                 tableCreated, allNestedData, phase, flattenedData, ensured, fields>>
  /\ \E ok \in BOOLEAN :
       LET r == InsertSql(dialect, tables[CurrentTable], stored[CurrentTable],
                          InsertColumns(Batch), Batch)
       IN /\ log' = Append(log, Entry("insertBatch", CurrentTable, ok /\ r.ok))
          /\ IF ok /\ r.ok
               THEN /\ stored' = [stored EXCEPT ![CurrentTable] = r.rows]
                    /\ i' = i + batchSize
                    /\ IF i' < Len(flattenedData)
                         THEN pc' = "insert" /\ UNCHANGED <<totalStored, nestedIdx>>
                         ELSE IF phase = "parent"
                           THEN /\ totalStored' = totalStored + Len(flattenedData)
                                /\ pc' = "collect"
                                /\ UNCHANGED nestedIdx
                           ELSE /\ nestedIdx' = nestedIdx + 1
                                /\ pc' = "nested"
                                /\ UNCHANGED totalStored
               ELSE pc' = "failed" /\ UNCHANGED <<stored, i, totalStored, nestedIdx>>

RECURSIVE Collected(_, _)
\* lines 381-387: the entries one page adds to allNestedData, for the nested
\* table descriptors ds
Collected(ds, rows) ==
  IF Len(ds) = 0 THEN <<>>
  ELSE LET extracted == extractNestedData(rows, ds[1].parentKey, ds[1].nestedKey)
       IN (IF Len(extracted) > 0 THEN <<[nested |-> ds[1], data |-> extracted]>> ELSE <<>>)
          \o Collected(Tail(ds), rows)

\* the page's nested rows written to their child table at once, not buffered
CollectNestedEager ==
  /\ pc = "collect"
  /\ UNCHANGED requested
  /\ LET entries == Collected(nestedTables, pageData)
     IN /\ stored' = [t \in TableNames |->
                        IF \E e \in 1..Len(entries) : entries[e].nested.childTable = t
                          THEN stored[t] \o FlattenAll(entries[1].data)
                          ELSE stored[t]]
        /\ log' = log \o [e \in 1..Len(entries) |->
                            Entry("insertBatch", entries[e].nested.childTable, TRUE)]
  /\ pc' = "decide"
  /\ UNCHANGED <<envVars, tables, pool, pools, poolLog, loopVars, connRet, result, served, ensVars,
                 tableCreated, totalStored, allNestedData, phase, flattenedData, i,
                 nestedIdx, ensured, fields>>

\* onPageFetched, lines 380-387: buffer the page's nested rows; the callback
\* returns to the pagination loop
CollectNested ==
  /\ pc = "collect"
  /\ UNCHANGED requested
  /\ allNestedData' = allNestedData \o Collected(nestedTables, pageData)
  /\ pc' = "decide"
  /\ UNCHANGED <<envVars, dbVars, loopVars, connRet, result, served, log, ensVars,
                 tableCreated, totalStored, phase, flattenedData, i, nestedIdx, ensured,
                 fields>>

\* lines 392-398: after fetchPaginated has returned
AfterFetch ==
  /\ pc = "after_fetch"
  /\ UNCHANGED requested
  /\ IF totalStored = 0
       THEN pc' = "done" /\ UNCHANGED <<phase, nestedIdx>>
       ELSE pc' = "nested" /\ phase' = "nested" /\ nestedIdx' = 1
  /\ UNCHANGED <<envVars, dbVars, loopVars, connRet, result, served, log, ensVars,
                 tableCreated, totalStored, allNestedData, flattenedData, i, ensured, fields>>

\* lines 398-403: the next entry of allNestedData, or the end of the invocation
NestedNext ==
  /\ pc = "nested"
  /\ UNCHANGED requested
  /\ UNCHANGED <<envVars, dbVars, loopVars, connRet, result, served, log, missing, ensCols,
                 tableCreated, totalStored, allNestedData, phase, ensured, fields>>
  /\ IF nestedIdx > Len(allNestedData)
       THEN pc' = "done" /\ UNCHANGED <<flattenedData, i, nestedIdx, ensTable, sampleRow>>
       ELSE /\ flattenedData' = FlattenAll(allNestedData[nestedIdx].data)
            /\ i' = 0
            /\ IF Len(flattenedData') > 0
                 THEN /\ CallEnsure(allNestedData[nestedIdx].nested.childTable,
                                    Obj(flattenedData'[1]))
                      /\ UNCHANGED nestedIdx
                 ELSE /\ nestedIdx' = nestedIdx + 1 /\ pc' = "nested"
                      /\ UNCHANGED <<ensTable, sampleRow>>

(* ----------------------------- getWithRetry -------------------------- *)
\* an error raised by get (the axios call rejected)
Err(e) == [t |-> "error", v |-> e]
IsErr(x) == x.t = "error"
\* what one get call may do: raise, or return null (non-JSON) or a body
GetOutcomes == {Err("timeout"), Err("http500"), Null, Arr(<<>>), rPlain}

RECURSIVE Pow2(_)
\* Math.pow(2, n)
Pow2(n) == IF n = 0 THEN 1 ELSE 2 * Pow2(n - 1)

\* the loop runs one attempt more than maxRetries
RetryAgainOneMore(a, m) == a <= m + 1
\* line 93: attempt <= maxRetries
RetryAgain(a, m) == a <= m

\* line 91-93: the default of the parameter and the loop's initialisation
RetryStart ==
  /\ rpc = "call"
  /\ maxRetries' = IF passedRetries.t = "undef" THEN 3 ELSE passedRetries.v
  /\ attempt' = 1
  /\ rpc' = "loop"
  /\ UNCHANGED <<passedRetries, lastError, outcome, calls, slept>>
  /\ UNCHANGED <<fetchVars, mainVars, extractVars, callVars>>

\* lines 94-103: one attempt: get returns, or raises and the loop sleeps
\* before the next attempt
RetryAttempt ==
  /\ rpc = "loop"
  /\ RetryAgain(attempt, maxRetries)
  /\ \E o \in GetOutcomes :
       /\ calls' = Append(calls, o)
       /\ IF ~IsErr(o)
            THEN /\ outcome' = o
                 /\ rpc' = "returned"
                 /\ UNCHANGED <<lastError, attempt, slept>>
            ELSE /\ lastError' = o
                 /\ slept' = IF attempt < maxRetries
                               THEN Append(slept, Pow2(attempt) * 1000)
                               ELSE slept
                 /\ attempt' = attempt + 1
                 /\ UNCHANGED <<outcome, rpc>>
  /\ UNCHANGED <<passedRetries, maxRetries>>
  /\ UNCHANGED <<fetchVars, mainVars, extractVars, callVars>>

\* line 105: throw lastError
RetryThrow ==
  /\ rpc = "loop"
  /\ ~RetryAgain(attempt, maxRetries)
  /\ outcome' = lastError
  /\ rpc' = "raised"
  /\ UNCHANGED <<passedRetries, maxRetries, attempt, lastError, calls, slept>>
  /\ UNCHANGED <<fetchVars, mainVars, extractVars, callVars>>

(* ----------------------------- entry points -------------------------- *)
\* An endpoint is its requiresDate flag; a date range is TRUE when both its
\* dateFrom and dateTo are set.  calculateDateRanges returns one range, which
\* in static mode may lack its dates, or several ranges with dates.
EndpointLists ==
  UNION {[1..n -> BOOLEAN] : n \in 0..MaxEndpoints}
DateRangeLists ==
  {<<FALSE>>} \cup {[j \in 1..n |-> TRUE] : n \in 1..MaxRanges}

\* one fetchAndStore call of an entry point: endpoint e, range r (0 = none)
Attempt(e, r, ok) == [ep |-> e, rg |-> r, ok |-> ok]

\* where an error that reaches the outer catch block leaves the entry point:
\* main calls process.exit(1) inside the catch block (line 588), which ends
\* the process before the finally block runs; runFetchJob logs and falls
\* through to its finally block
MainCatch(en) == IF en = "main" THEN "exited" ELSE "finally"

\* the fetchAndStore call of a non-date endpoint is inside a try/catch of its
\* own in runFetchJob (scheduler lines 139-146), not in main (lines 555-560)
EndpointCaught(en) == en = "job"

\* db.connect() inside the try block
MainConnect ==
  /\ mpc = "connect"
  /\ \E ok \in BOOLEAN :
       IF ok
         THEN /\ acquired' = TRUE
              /\ mpc' = "loop"
              /\ epIdx' = 1 /\ rgIdx' = 1
         ELSE /\ mpc' = MainCatch(entry)
              /\ UNCHANGED <<acquired, epIdx, rgIdx>>
  /\ UNCHANGED <<entry, endpointsToFetch, dateRanges, attempted, released>>
  /\ UNCHANGED <<fetchVars, retryVars, extractVars, callVars>>

\* one iteration of the endpoint loop for an endpoint without requiresDate
MainEndpoint ==
  /\ mpc = "loop"
  /\ epIdx <= Len(endpointsToFetch)
  /\ ~endpointsToFetch[epIdx]
  /\ \E ok \in BOOLEAN :
       /\ attempted' = Append(attempted, Attempt(epIdx, 0, ok))
       /\ IF ok \/ EndpointCaught(entry)
            THEN /\ epIdx' = epIdx + 1
                 /\ UNCHANGED mpc
            ELSE /\ mpc' = MainCatch(entry)
                 /\ UNCHANGED epIdx
  /\ UNCHANGED <<entry, endpointsToFetch, dateRanges, rgIdx, acquired, released>>
  /\ UNCHANGED <<fetchVars, retryVars, extractVars, callVars>>

\* one iteration of the date-range loop of an endpoint with requiresDate, or
\* the end of that loop
MainRange ==
  /\ mpc = "loop"
  /\ epIdx <= Len(endpointsToFetch)
  /\ endpointsToFetch[epIdx]
  /\ IF rgIdx > Len(dateRanges)
       THEN /\ epIdx' = epIdx + 1 /\ rgIdx' = 1
            /\ UNCHANGED attempted
       ELSE /\ rgIdx' = rgIdx + 1
            /\ UNCHANGED epIdx
            /\ IF ~dateRanges[rgIdx]
                 THEN UNCHANGED attempted
                 ELSE \E ok \in BOOLEAN :
                        attempted' = Append(attempted, Attempt(epIdx, rgIdx, ok))
  /\ UNCHANGED <<entry, endpointsToFetch, dateRanges, mpc, acquired, released>>
  /\ UNCHANGED <<fetchVars, retryVars, extractVars, callVars>>

\* the endpoint loop is over: the try block completes
MainLoopEnd ==
  /\ mpc = "loop"
  /\ epIdx > Len(endpointsToFetch)
  /\ mpc' = "finally"
  /\ UNCHANGED <<entry, endpointsToFetch, dateRanges, epIdx, rgIdx, attempted,
                 acquired, released>>
  /\ UNCHANGED <<fetchVars, retryVars, extractVars, callVars>>

\* the finally block: db.disconnect() and closeTunnel()
MainFinally ==
  /\ mpc = "finally"
  /\ released' = TRUE
  /\ mpc' = "ended"
  /\ UNCHANGED <<entry, endpointsToFetch, dateRanges, epIdx, rgIdx, attempted, acquired>>
  /\ UNCHANGED <<fetchVars, retryVars, extractVars, callVars>>

(* ------------------------- extractNestedData call --------------------- *)
\* parent records: without the nested key, with two nested objects, with a
\* non-array at the key, without the parent key, with an empty array, and
\* with items that are no plain records
xNoArray == Obj(<<KV("warehouse_code", Str("W5")), KV("locations", Str("none"))>>)
xNoParentKey == Obj(<<KV("locations", Arr(<<Obj(<<KV("zone", Str("C"))>>)>>))>>)
xEmptyArray == Obj(<<KV("warehouse_code", Str("W6")), KV("locations", Arr(<<>>))>>)
xOddItems ==
  Obj(<<KV("warehouse_code", Str("W7")),
        KV("locations",
           Arr(<<Str("ab"), Null,
                 Obj(<<KV("_parent_warehouse_code", Str("X")), KV("zone", Str("D"))>>)>>))>>)
ExtractRecords == {rPlain, rNested, xNoArray, xNoParentKey, xEmptyArray, xOddItems}

\* the call returns
ExtractCall ==
  /\ nestedRows = Undefined
  /\ nestedRows' = Arr(extractNestedData(argRows, argParentKey, argNestedKey))
  /\ UNCHANGED <<argRows, argParentKey, argNestedKey>>
  /\ UNCHANGED <<fetchVars, retryVars, mainVars, callVars>>

(* ----------------------------- flattenRow call ----------------------- *)
\* field names (one of them the name a nested field flattens to) and field
\* values: primitives, null, arrays, and objects nested one and two deep
FlattenKeys == {"a", "b", "a_b"}
FlattenValues ==
  {Num(1), Str("x"), Null, Arr(<<Num(1)>>), Arr(<<>>), Obj(<<>>),
   Obj(<<KV("b", Num(2))>>),
   Obj(<<KV("b", Obj(<<KV("c", Null)>>)), KV("d", Arr(<<>>))>>)}
\* records of up to MaxFields fields with different names
FlattenRecords ==
  {Obj(r) : r \in {q \in UNION {[1..n -> [k : FlattenKeys, v : FlattenValues]] :
                                   n \in 0..MaxFields} :
                     \A a, b \in 1..Len(q) : a # b => q[a].k # q[b].k}}

\* flattenRow applied to the argument, then to its own output
FlattenCall ==
  /\ Len(fnOut) < 2
  /\ fnOut' = Append(fnOut,
                     Obj(flattenRow(IF Len(fnOut) = 0 THEN fnArg.v ELSE fnOut[Len(fnOut)].v,
                                    "")))
  /\ UNCHANGED fnArg
  /\ UNCHANGED <<fetchVars, retryVars, mainVars, extractVars>>

(* -------------------------- inferColumnType call ---------------------- *)
RECURSIVE Repeat(_, _)
\* s.repeat(n)
Repeat(s, n) ==
  IF n = 0 THEN ""
  ELSE IF n % 2 = 0 THEN Repeat(s \o s, n \div 2)
  ELSE s \o Repeat(s \o s, n \div 2)

\* strings around the two date patterns: right and wrong years, separators,
\* days and tails
DateLikeStrings ==
  {y \o s1 \o "01-" \o d \o tail :
     y \in {"2024", "20a4", "024"}, s1 \in {"-", "/"}, d \in {"31", "3"},
     tail \in {"", "T10:30", " 10:30:00", "T1:30", "X10:30", "T10:3", "Z"}}
\* strings around the length limit, one of them with a timestamp in front
LongStrings ==
  {"", "abc", Repeat("x", 255), Repeat("x", 256),
   "2024-01-31 10:30" \o Repeat("x", 300), "2024-01-3" \o Repeat("1", 300)}
InferValues ==
  {Undefined, Null, Bool(TRUE), Bool(FALSE), Num(0), Num(7), Num(0 - 5),
   Num(2147483647), Obj(<<>>), Obj(<<KV("a", Num(1))>>), Arr(<<>>)}
  \cup {Str(x) : x \in DateLikeStrings \cup LongStrings}

\* adapter.inferColumnType(value) of the adapter of dialect d
InferCall ==
  /\ fnOut = <<>>
  /\ fnOut' = <<inferColumnType(fnArg.d, fnArg.value)>>
  /\ UNCHANGED fnArg
  /\ UNCHANGED <<fetchVars, retryVars, mainVars, extractVars>>

(* ------------------------- the two adapters' calls -------------------- *)
\* rows given to an adapter and the lower-cased column names getColumns
\* reports for the table
DialectKeys == {"a", "Notes", "n"}
DialectValues ==
  {Null, Bool(TRUE), Num(0), Num(7), Str("abc"), Str("2024-01-31"),
   Str("2024-01-31 10:30"), Obj(<<>>), Arr(<<>>)}
DialectRows ==
  {Obj(r) : r \in {q \in UNION {[1..n -> [k : DialectKeys, v : DialectValues]] :
                                   n \in 0..MaxFields} :
                     \A a, b \in 1..Len(q) : a # b => q[a].k # q[b].k}}
DialectSchemas == SUBSET {"a", "notes"}

\* the columns adapter d names in createTable, in the ADD COLUMN statements of
\* addMissingColumns and in the INSERT of insertBatch for one row
AdapterColumns(d, row, names) ==
  [create |-> CreateColumns(d, row),
   add |-> LET keys == MissingKeys(row, names)
           IN [j \in 1..Len(keys) |-> Col(keys[j].k, inferColumnType(d, keys[j].v))],
   insert |-> InsertColumns(<<row>>)]

\* the three calls made on the MySQL adapter, then on the PostgreSQL adapter
AdapterCall ==
  /\ Len(fnOut) < 2
  /\ fnOut' = Append(fnOut,
                     AdapterColumns(IF Len(fnOut) = 0 THEN "mysql" ELSE "postgres",
                                    fnArg.row.v, fnArg.names))
  /\ UNCHANGED fnArg
  /\ UNCHANGED <<fetchVars, retryVars, mainVars, extractVars>>

(* ------------------------------ scheduler ----------------------------- *)
\* the runFetchJob call j has begun and has not ended
InProgress(j) == jobPc[j] \in {"adapter", "run", "finally"}
\* the next runFetchJob call to begin
NextJob == CHOOSE j \in 1..MaxJobs : jobPc[j] = "none" /\ \A k \in 1..(j - 1) : jobPc[k] # "none"

\* runFetchJob, lines 103-124: the call runs up to its first await
BeginJob ==
  /\ \E j \in 1..MaxJobs : jobPc[j] = "none"
  /\ jobPc' = [jobPc EXCEPT ![NextJob] = "adapter"]
  /\ UNCHANGED <<sshEnabled, nowFlag, jobTunnel, activeTunnel, openTunnels>>
  /\ UNCHANGED schedEnv

\* scheduler.js lines 223-227: with --now a job is begun as the script loads
StartNow ==
  /\ nowFlag
  /\ \A j \in 1..MaxJobs : jobPc[j] = "none"
  /\ BeginJob

\* scheduler.js lines 216-218: the cron callback calls runFetchJob at every
\* tick, whatever the earlier calls are doing
CronTrigger ==
  /\ nowFlag => jobPc[1] # "none"
  /\ BeginJob

\* createSSHTunnel (ssh-tunnel lines 7-81) as called by createAdapterWithTunnel
\* (adapter-factory lines 9-13): a tunnel listening on the local port, held in
\* module state; the local port is taken while an earlier tunnel listens
createSSHTunnel(j) ==
  /\ openTunnels = {}
  /\ openTunnels' = {j}
  /\ activeTunnel' = j
  /\ jobTunnel' = [jobTunnel EXCEPT ![j] = j]

\* runFetchJob line 126: createAdapterWithTunnel, outside the try block, so
\* that a failed tunnel ends the call without its finally clause
JobCreateAdapter ==
  \E j \in 1..MaxJobs :
    /\ jobPc[j] = "adapter"
    /\ \/ /\ ~sshEnabled
          /\ jobPc' = [jobPc EXCEPT ![j] = "run"]
          /\ UNCHANGED <<jobTunnel, activeTunnel, openTunnels>>
       \/ /\ sshEnabled
          /\ createSSHTunnel(j)
          /\ jobPc' = [jobPc EXCEPT ![j] = "run"]
       \/ /\ sshEnabled
          /\ jobPc' = [jobPc EXCEPT ![j] = "crashed"]
          /\ UNCHANGED <<jobTunnel, activeTunnel, openTunnels>>
    /\ UNCHANGED <<sshEnabled, nowFlag>>
    /\ UNCHANGED schedEnv

\* runFetchJob lines 136-194: connect and the endpoint loops, to the end of
\* the try block or into its catch clause
JobRun ==
  \E j \in 1..MaxJobs :
    /\ jobPc[j] = "run"
    /\ jobPc' = [jobPc EXCEPT ![j] = "finally"]
    /\ UNCHANGED <<sshEnabled, nowFlag, jobTunnel, activeTunnel, openTunnels>>
    /\ UNCHANGED schedEnv

\* runFetchJob lines 195-198: disconnect, then closeTunnel (adapter-factory
\* lines 47-50), which closes the tunnel module state refers to (ssh-tunnel
\* lines 83-93)
JobFinally ==
  \E j \in 1..MaxJobs :
    /\ jobPc[j] = "finally"
    /\ jobPc' = [jobPc EXCEPT ![j] = "ended"]
    /\ openTunnels' = openTunnels \ {activeTunnel}
    /\ activeTunnel' = 0
    /\ UNCHANGED <<sshEnabled, nowFlag, jobTunnel>>
    /\ UNCHANGED schedEnv

(* -------------------- concurrent ensureTable calls -------------------- *)
\* SchemaHandler lines 11-12: the tableExists query of caller c
RaceTableExists ==
  \E c \in Callers, ok \in BOOLEAN :
    /\ ensPc[c] = "exists"
    /\ ensPc' = [ensPc EXCEPT ![c] = IF ~ok THEN "failed"
                                     ELSE IF tables[tableName].exists THEN "get_columns"
                                     ELSE "create"]
    /\ UNCHANGED <<tables, ensMissing>>
    /\ UNCHANGED raceEnv

\* SchemaHandler line 13: createTable of caller c (adapter lines 317-332)
RaceCreateTable ==
  \E c \in Callers, ok \in BOOLEAN :
    /\ ensPc[c] = "create"
    /\ LET r == CreateTableSql(dialect, tables[tableName],
                               CreateColumns(dialect, ensRow[c].v))
       IN IF ok /\ r.ok
            THEN /\ tables' = [tables EXCEPT ![tableName] = r.table]
                 /\ ensPc' = [ensPc EXCEPT ![c] = "returned"]
            ELSE /\ ensPc' = [ensPc EXCEPT ![c] = "failed"]
                 /\ UNCHANGED tables
    /\ UNCHANGED ensMissing
    /\ UNCHANGED raceEnv

\* SchemaHandler line 15: addMissingColumns of caller c, its getColumns query
\* (adapter lines 335-336)
RaceGetColumns ==
  \E c \in Callers, ok \in BOOLEAN :
    /\ ensPc[c] = "get_columns"
    /\ LET existingColumns == IF ok THEN tables[tableName].cols ELSE <<>>
           m == MissingKeys(ensRow[c].v, ExistingNames(existingColumns))
       IN /\ ensMissing' = [ensMissing EXCEPT ![c] = m]
          /\ ensPc' = [ensPc EXCEPT ![c] = IF Len(m) = 0 THEN "returned" ELSE "add_column"]
    /\ UNCHANGED tables
    /\ UNCHANGED raceEnv

\* addMissingColumns of caller c, one ALTER TABLE ADD COLUMN (adapter lines
\* 338-348)
RaceAddColumn ==
  \E c \in Callers, ok \in BOOLEAN :
    /\ ensPc[c] = "add_column"
    /\ LET key == ensMissing[c][1]
           r == AddColumnSql(dialect, tables[tableName],
                             Col(key.k, inferColumnType(dialect, key.v)))
       IN IF ok /\ r.ok
            THEN /\ tables' = [tables EXCEPT ![tableName] = r.table]
                 /\ ensMissing' = [ensMissing EXCEPT ![c] = Tail(ensMissing[c])]
                 /\ ensPc' = [ensPc EXCEPT ![c] = IF Len(ensMissing[c]) = 1 THEN "returned"
                                                  ELSE "add_column"]
            ELSE /\ ensPc' = [ensPc EXCEPT ![c] = "failed"]
                 /\ UNCHANGED <<tables, ensMissing>>
    /\ UNCHANGED raceEnv

(* --------------------------- specifications --------------------------- *)
NoTable == [exists |-> FALSE, cols |-> <<>>]
Existing(cols) == [exists |-> TRUE, cols |-> cols]
\* destination schemas a run may start from: no table yet, or the tables an
\* earlier run created (a column first seen as null was created as TEXT)
ParentTables(d) ==
  {NoTable,
   Existing(CreateColumns(d, <<KV("warehouse_code", Null)>>)),
   Existing(CreateColumns(d, <<KV("warehouse_code", Str("W0")), KV("notes", Null)>>))}
ChildTables(d) ==
  {NoTable,
   Existing(CreateColumns(d, <<KV("zone", Str("A"))>>))}

\* getWithRetry, an entry point and extractNestedData not running
IdleRetry ==
  /\ passedRetries = Undefined /\ maxRetries = 0 /\ attempt = 0
  /\ lastError = Undefined /\ rpc = "idle" /\ outcome = Undefined
  /\ calls = <<>> /\ slept = <<>>
IdleMain ==
  /\ entry = "" /\ endpointsToFetch = <<>> /\ dateRanges = <<>>
  /\ epIdx = 0 /\ rgIdx = 0 /\ mpc = "idle" /\ attempted = <<>>
  /\ acquired = FALSE /\ released = FALSE
IdleExtract ==
  /\ argRows = <<>> /\ argParentKey = "" /\ argNestedKey = "" /\ nestedRows = Undefined
IdleCall ==
  /\ fnArg = Undefined /\ fnOut = <<>>

\* the locals of fetchPaginated and fetchAndStore as their declarations set
\* them, and the histories empty (all but the argument of ensureTable)
LocalsCore ==
  /\ handed = <<>> /\ firstResult = Undefined /\ firstHanded = <<>>
  /\ stored = [t \in TableNames |-> <<>>]
  /\ pageNumber = 1 /\ hasMore = TRUE /\ totalFetched = 0 /\ allData = <<>>
  /\ response = Undefined /\ isPaginated = FALSE /\ pageData = <<>>
  /\ connRet = "loop"
  /\ tableCreated = FALSE /\ totalStored = 0 /\ allNestedData = <<>>
  /\ phase = "parent" /\ flattenedData = <<>> /\ i = 0 /\ nestedIdx = 1
  /\ ensTable = tableName /\ missing = <<>>
  /\ ensCols = NoTable
  /\ result = Undefined /\ served = 0 /\ log = <<>> /\ requested = <<>>
  /\ tables0 = tables
  /\ ensured = [t \in TableNames |-> {}]
  /\ fields = {}

\* no runFetchJob call has begun and no tunnel exists
IdleSched ==
  /\ sshEnabled = FALSE /\ nowFlag = FALSE
  /\ jobPc = [j \in 1..MaxJobs |-> "none"]
  /\ jobTunnel = [j \in 1..MaxJobs |-> 0]
  /\ activeTunnel = 0 /\ openTunnels = {}
\* no concurrent ensureTable call is in progress
IdleRace ==
  /\ ensPc = [c \in Callers |-> "none"]
  /\ ensRow = [c \in Callers |-> Undefined]
  /\ ensMissing = [c \in Callers |-> <<>>]

LocalsBesidesPool ==
  /\ IdleSched /\ IdleRace
  /\ LocalsCore

\* connect() has been called by the entry point: the first pool is open
OtherLocals ==
  /\ pool = 1 /\ pools = <<"open">> /\ poolLog = <<>>
  /\ LocalsBesidesPool

\* ... with no ensureTable call made yet
FetchLocals ==
  /\ sampleRow = Undefined
  /\ OtherLocals

InitLocals ==
  /\ pc = "request"
  /\ FetchLocals
  /\ IdleRetry /\ IdleMain /\ IdleExtract /\ IdleCall

\* no fetch under way
IdleFetch ==
  /\ server = [kind |-> "script"]
  /\ dialect = "mysql"
  /\ streaming = TRUE
  /\ tables = [t \in TableNames |-> NoTable]
  /\ pc = "idle"
  /\ FetchLocals

\* one fetchAndStore invocation (streaming mode) against a scripted server
Init ==
  /\ server = [kind |-> "script"]
  /\ dialect \in {"mysql", "postgres"}
  /\ streaming = TRUE
  /\ \E p \in ParentTables(dialect), c \in ChildTables(dialect) :
       tables = [t \in TableNames |-> IF t = tableName THEN p ELSE c]
  /\ InitLocals

Next ==
  \/ Request
  \/ Callback
  \/ EnsureTable
  \/ CreateTable
  \/ GetColumns
  \/ AddColumn
  \/ InsertBatch
  \/ CollectNested
  \/ Decide
  \/ EnsureConnected
  \/ AfterFetch
  \/ NestedNext

Spec == Init /\ [][Next]_vars

\* one fetchPaginated call without a callback (batch mode) against a server
\* that pages through its records
InitPaging ==
  /\ server \in PagingServers \cup {ScenarioServer}
  /\ dialect = "mysql"
  /\ streaming = FALSE
  /\ tables = [t \in TableNames |-> NoTable]
  /\ InitLocals

NextPaging ==
  \/ Request
  \/ Decide

SpecPaging == InitPaging /\ [][NextPaging]_vars

\* one getWithRetry call, with maxRetries omitted or passed
InitRetry ==
  /\ passedRetries \in {Undefined} \cup {Num(n) : n \in 0..MaxRetries}
  /\ maxRetries = 0 /\ attempt = 0
  /\ lastError = Undefined /\ rpc = "call" /\ outcome = Undefined
  /\ calls = <<>> /\ slept = <<>>
  /\ IdleFetch /\ IdleMain /\ IdleExtract /\ IdleCall

NextRetry ==
  \/ RetryStart
  \/ RetryAttempt
  \/ RetryThrow

SpecRetry == InitRetry /\ [][NextRetry]_vars

\* one fetchAndStore invocation against a server that pages through many
\* records; the destination starts without tables
InitStream ==
  /\ server \in StreamServers
  /\ dialect = "mysql"
  /\ streaming = TRUE
  /\ tables = [t \in TableNames |-> NoTable]
  /\ InitLocals

NextStream ==
  \/ Request
  \/ Callback
  \/ EnsureTable
  \/ CreateTable
  \/ InsertBatch
  \/ CollectNested
  \/ Decide
  \/ EnsureConnected
  \/ AfterFetch
  \/ NestedNext

SpecStream == InitStream /\ [][NextStream]_vars

\* one run of an entry point: the CLI main or a scheduler job
InitMain ==
  /\ entry \in {"main", "job"}
  /\ endpointsToFetch \in EndpointLists
  /\ dateRanges \in DateRangeLists
  /\ epIdx = 0 /\ rgIdx = 0 /\ mpc = "connect" /\ attempted = <<>>
  /\ acquired = FALSE /\ released = FALSE
  /\ IdleFetch /\ IdleRetry /\ IdleExtract /\ IdleCall

NextMain ==
  \/ MainConnect
  \/ MainEndpoint
  \/ MainRange
  \/ MainLoopEnd
  \/ MainFinally

SpecMain == InitMain /\ [][NextMain]_vars

\* the representative rows ensureTable is called with: absent (undefined or
\* null), without keys, or the flattened form of a record
EnsureRows ==
  {Undefined, Null, Obj(<<>>)}
  \cup {Obj(flattenRow(r.v, "")) : r \in {rPlain, rNotes, rCase, rNested}}

\* one ensureTable call on the parent table; pc = "insert" afterwards stands
\* for the return to the caller
InitEnsure ==
  /\ server = [kind |-> "script"]
  /\ dialect \in {"mysql", "postgres"}
  /\ streaming = TRUE
  /\ \E p \in ParentTables(dialect), c \in ChildTables(dialect) :
       tables = [t \in TableNames |-> IF t = tableName THEN p ELSE c]
  /\ pc = "ensure"
  /\ sampleRow \in EnsureRows
  /\ OtherLocals
  /\ IdleRetry /\ IdleMain /\ IdleExtract /\ IdleCall

NextEnsure ==
  \/ EnsureTable
  \/ CreateTable
  \/ GetColumns
  \/ AddColumn

SpecEnsure == InitEnsure /\ [][NextEnsure]_vars

\* one extractNestedData call on a list of parent records
InitExtract ==
  /\ argRows \in UNION {[1..n -> ExtractRecords] : n \in 0..MaxRows}
  /\ argParentKey \in {"warehouse_code", "zone"}
  /\ argNestedKey \in {"locations", "warehouse_code"}
  /\ nestedRows = Undefined
  /\ IdleFetch /\ IdleRetry /\ IdleMain /\ IdleCall

NextExtract == ExtractCall

SpecExtract == InitExtract /\ [][NextExtract]_vars

\* flattenRow called on a record and again on what it returned
InitFlatten ==
  /\ fnArg \in FlattenRecords
  /\ fnOut = <<>>
  /\ IdleFetch /\ IdleRetry /\ IdleMain /\ IdleExtract

NextFlatten == FlattenCall

SpecFlatten == InitFlatten /\ [][NextFlatten]_vars

\* one inferColumnType call of either adapter
InitInfer ==
  /\ fnArg \in [d : {"mysql", "postgres"}, value : InferValues]
  /\ fnOut = <<>>
  /\ IdleFetch /\ IdleRetry /\ IdleMain /\ IdleExtract

NextInfer == InferCall

SpecInfer == InitInfer /\ [][NextInfer]_vars

\* the servers of SpecPaging that serve one record per page; of those that
\* never run out of records, the one without a count and the one whose count
\* is never reached
FairServers ==
  {sv \in PagingServers :
     /\ sv.size = 1
     /\ sv.avail = Inf => (sv.cp = "str" /\ sv.count \in {"absent", "huge"})}

InitPagingFair ==
  /\ InitPaging
  /\ server \in FairServers

\* a fetchPaginated call every step of which is eventually taken: the call
\* goes on whenever the transport call it awaits has returned
SpecPagingFair == InitPagingFair /\ [][NextPaging]_vars /\ WF_vars(NextPaging)

\* an adapter as constructed (no pool), after connect() (an open pool) or
\* after disconnect() (the pool closed, still referenced)
InitAdapter ==
  /\ server = [kind |-> "script"]
  /\ dialect \in {"mysql", "postgres"}
  /\ streaming = TRUE
  /\ tables = [t \in TableNames |-> NoTable]
  /\ pc = "adapter"
  /\ \/ pool = 0 /\ pools = <<>>
     \/ pool = 1 /\ pools \in {<<"open">>, <<"closed">>}
  /\ poolLog = <<>>
  /\ sampleRow = Undefined
  /\ LocalsBesidesPool
  /\ IdleRetry /\ IdleMain /\ IdleExtract /\ IdleCall

\* ensureConnected as the streaming pipeline calls it, and called directly
InitConn == InitStream \/ InitAdapter

NextConn ==
  \/ NextStream
  \/ EnsureConnectedCall

SpecConn == InitConn /\ [][NextConn]_vars

\* one fetchAndStore invocation against a server whose pages differ in the
\* fields of their records; the destination starts without tables
InitLate ==
  /\ server = [kind |-> "late"]
  /\ dialect \in {"mysql", "postgres"}
  /\ streaming = TRUE
  /\ tables = [t \in TableNames |-> NoTable]
  /\ InitLocals

SpecLate == InitLate /\ [][Next]_vars

\* fetchPaginated called with a callback and then without one, on a server
\* that gives both calls the same responses
InitModes ==
  /\ server \in FixedServers
  /\ dialect = "mysql"
  /\ streaming = TRUE
  /\ tables = [t \in TableNames |-> NoTable]
  /\ InitLocals

NextModes ==
  \/ Request
  \/ CallbackReturns
  \/ Decide
  \/ EnsureConnected
  \/ SecondCall

SpecModes == InitModes /\ [][NextModes]_vars

\* the same calls made on both adapters, on a table with the same columns
InitDialects ==
  /\ fnArg \in [row : DialectRows, names : DialectSchemas]
  /\ fnOut = <<>>
  /\ IdleFetch /\ IdleRetry /\ IdleMain /\ IdleExtract

NextDialects == AdapterCall

SpecDialects == InitDialects /\ [][NextDialects]_vars

\* the scheduler process: --now given or not, the SSH tunnel enabled or not
InitSched ==
  /\ sshEnabled \in BOOLEAN /\ nowFlag \in BOOLEAN
  /\ jobPc = [j \in 1..MaxJobs |-> "none"]
  /\ jobTunnel = [j \in 1..MaxJobs |-> 0]
  /\ activeTunnel = 0 /\ openTunnels = {}
  /\ server = [kind |-> "script"] /\ dialect = "mysql" /\ streaming = TRUE
  /\ tables = [t \in TableNames |-> NoTable]
  /\ IdleRace /\ LocalsCore
  /\ pc = "idle" /\ sampleRow = Undefined
  /\ pool = 1 /\ pools = <<"open">> /\ poolLog = <<>>
  /\ IdleRetry /\ IdleMain /\ IdleExtract /\ IdleCall

NextSched ==
  \/ StartNow
  \/ CronTrigger
  \/ JobCreateAdapter
  \/ JobRun
  \/ JobFinally

SpecSched == InitSched /\ [][NextSched]_vars

\* the representative rows of two invocations on the same endpoint
RaceRows == {Obj(flattenRow(r.v, "")) : r \in {rPlain, rNotes, rCase}}

\* two ensureTable calls on the parent table, both begun, with different rows
InitRace ==
  /\ ensPc = [c \in Callers |-> "exists"]
  /\ ensRow \in [Callers -> RaceRows]
  /\ ensRow[1] # ensRow[2]
  /\ ensMissing = [c \in Callers |-> <<>>]
  /\ server = [kind |-> "script"] /\ dialect \in {"mysql", "postgres"} /\ streaming = TRUE
  /\ \E p \in ParentTables(dialect) :
       tables = [t \in TableNames |-> IF t = tableName THEN p ELSE NoTable]
  /\ IdleSched /\ LocalsCore
  /\ pc = "idle" /\ sampleRow = Undefined
  /\ pool = 1 /\ pools = <<"open">> /\ poolLog = <<>>
  /\ IdleRetry /\ IdleMain /\ IdleExtract /\ IdleCall

NextRace ==
  \/ RaceTableExists
  \/ RaceCreateTable
  \/ RaceGetColumns
  \/ RaceAddColumn

SpecRace == InitRace /\ [][NextRace]_vars

(* ------------------------------- claims ------------------------------- *)
\* the server reports its true record count and the true page number
HonestServer ==
  /\ server.kind = "paging" /\ server.avail # Inf
  /\ server.count \in {"str", "num"} /\ server.cp \in {"str", "num"}

\* C1 (as claimed): against a wrapped-shape server that reports its true total
\* count C > 0 and serves pages of fixed size S, the last one holding the
\* remainder, a completed fetchPaginated call has issued exactly ceil(C/S)
\* requests.
C1_ExactlyCeilRequests ==
  (pc = "done" /\ HonestServer /\ server.avail > 0)
    => Len(requested) = CeilDiv(server.avail, server.size)

\* C2: one fetchPaginated call issues at most 1000 page requests, never asks
\* for a page number above 1000, and against a server that always signals more
\* pages it stops right after the request for page 1000.
C2_RequestCeiling ==
  /\ Len(requested) <= PageLimit
  /\ Len(requested) > 0 => requested[Len(requested)] <= PageLimit
  /\ (pc = "done" /\ server.kind = "paging" /\ server.avail = Inf)
       => (Len(requested) = PageLimit /\ requested[PageLimit] = PageLimit)

C2_Witness ==
  /\ pc = "done" /\ server.kind = "paging" /\ server.avail = Inf
  /\ Len(requested) = PageLimit

StorageOps == {"tableExists", "createTable", "getColumns", "addColumn", "insertBatch"}
\* log positions of a kind
OpsOn(table, ops) == {j \in 1..Len(log) : log[j].table = table /\ log[j].op \in ops}
AllColumnsOf(table, keys) == \A key \in keys : HasColumn(dialect, table.cols, key)

\* C3: a column that is in a table is still in it, with the same type, after
\* every step of the engine: nothing is dropped, renamed or retyped.
C3_ColumnsKept ==
  [][\A t \in TableNames :
       tables[t].exists =>
         /\ tables'[t].exists
         /\ \A j \in 1..Len(tables[t].cols) :
              \E k \in 1..Len(tables'[t].cols) : tables'[t].cols[k] = tables[t].cols[j]]_vars

\* a table that existed with columns of its own has been given a new column
C3_Witness ==
  \E t \in TableNames :
    /\ tables0[t].exists
    /\ Len(tables[t].cols) > Len(tables0[t].cols)

\* C4 (as claimed): after successful ensureTable calls on a table, the table
\* has a column for every key of every representative row passed in them.
C4_ColumnsCoverKeys ==
  \A t \in TableNames : AllColumnsOf(tables[t], ensured[t])

\* C5 (as claimed): a completed run against an already existing table has
\* given a column to every field of the records it received, whichever record
\* or page carried the field.
C5_EveryFieldGetsColumn ==
  (pc = "done" /\ tables0[tableName].exists) => AllColumnsOf(tables[tableName], fields)

\* the keys ADD COLUMN has been issued for in the running ensureTable call
IssuedKeys ==
  LET start == CHOOSE j \in 1..Len(log) :
                 /\ log[j].op = "tableExists"
                 /\ \A k \in (j + 1)..Len(log) : log[k].op # "tableExists"
      adds == SelectSeq(SubSeq(log, start, Len(log)), LAMBDA e : e.op = "addColumn")
  IN [j \in 1..Len(adds) |-> adds[j].key]
\* an ensureTable call that found its table existing is under way or has
\* just returned (no later storage call has been logged)
InAddMissing ==
  /\ Len(log) > 0
  /\ log[Len(log)].op \in {"getColumns", "addColumn"}
\* the keys of the representative row that were no column when the call began
TrulyMissing == Keys(MissingKeys(sampleRow.v, ExistingNames(ensCols.cols)))

\* C6 (as claimed): ensureTable on an existing table issues ADD COLUMN only
\* for representative-row keys that are not columns of the table (compared
\* case-insensitively), and when it returns it has issued it for exactly
\* those keys.
C6_AddsExactlyMissing ==
  InAddMissing =>
    /\ \A j \in 1..Len(IssuedKeys) :
         j <= Len(TrulyMissing) /\ IssuedKeys[j] = TrulyMissing[j]
    /\ (pc = "insert" /\ log[Len(log)].ok) => IssuedKeys = TrulyMissing

\* C7: in one invocation, every storage call on a child table comes after the
\* last page request and the last storage call on the parent table.
C7_ChildAfterParent ==
  \A a, b \in 1..Len(log) :
    (a < b /\ log[a].table = childTable)
      => (log[b].op # "request" /\ log[b].table # tableName)

\* child rows were written after two pages of the parent
C7_Witness ==
  /\ pc = "done"
  /\ Len(requested) >= 2
  /\ Len(stored[tableName]) >= 2
  /\ Len(stored[childTable]) > 0

\* C8: when a step of the parent table's ingestion fails (a page request,
\* ensureTable or an insertBatch of the parent), the invocation inserts no
\* row into a child table.
C8_NoChildRowsOnParentFailure ==
  (pc = "failed" /\ phase = "parent")
    => /\ stored[childTable] = <<>>
       /\ OpsOn(childTable, StorageOps) = {}

\* the parent failed with nested rows already buffered
C8_Witness ==
  /\ pc = "failed" /\ phase = "parent"
  /\ Len(allNestedData) > 0
  /\ Len(stored[tableName]) > 0

\* C9: as long as the endpoint has produced no record, the invocation has made
\* no createTable, addMissingColumns or insertBatch call and the destination
\* schema is as it was: an absent table stays absent.
C9_NoRecordsNoTrace ==
  served = 0 =>
    /\ \A j \in 1..Len(log) : log[j].op \notin {"createTable", "getColumns", "addColumn", "insertBatch"}
    /\ tables = tables0

\* an invocation that ended after a response without records
C9_Witness ==
  /\ pc = "done" /\ served = 0
  /\ Len(requested) = 1
  /\ response.t = "obj"
  /\ ~tables[tableName].exists

\* C10 (as claimed): once a page request has returned a non-JSON response,
\* fetchPaginated has returned empty, no further page is requested and no
\* record of the fetch is in the destination.
C10_NonJsonStoresNothing ==
  response = Null =>
    /\ result = Arr(<<>>)
    /\ pc # "request" /\ requested[Len(requested)] = pageNumber
    /\ \A t \in TableNames : stored[t] = <<>>

\* C11: getWithRetry calls get at most maxRetries times (3 when the argument
\* is omitted); no call follows one that returned, whose result is what
\* getWithRetry returns; and when every call raised, getWithRetry raises the
\* error of the last call.
C11_RetryContract ==
  rpc # "call" =>
    /\ Len(calls) <= maxRetries
    /\ passedRetries = Undefined => Len(calls) <= 3
    /\ \A j \in 1..(Len(calls) - 1) : IsErr(calls[j])
    /\ rpc = "loop" => \A j \in 1..Len(calls) : IsErr(calls[j])
    /\ rpc = "returned" =>
         /\ Len(calls) > 0
         /\ ~IsErr(calls[Len(calls)])
         /\ outcome = calls[Len(calls)]
    /\ rpc = "raised" =>
         /\ Len(calls) = maxRetries
         /\ \A j \in 1..Len(calls) : IsErr(calls[j])
         /\ Len(calls) > 0 => outcome = calls[Len(calls)]

\* three attempts of a call with the default raised, the last two differently
C11_Witness ==
  /\ rpc = "raised" /\ passedRetries = Undefined
  /\ Len(calls) = 3 /\ calls[2] # calls[3]
  /\ outcome = calls[3]

\* C12: the requests of one fetchPaginated call carry page_number 1, 2, 3, ...
\* without gap or repetition, and whenever the next request is about to be
\* issued every record of the pages received so far has been inserted: the
\* callback of the previous page, with all its insertBatch calls, is over.
C12_AscendingAfterProcessing ==
  /\ \A j \in 1..Len(requested) : requested[j] = j
  /\ pc = "request" =>
       /\ pageNumber = Len(requested) + 1
       /\ Len(stored[tableName]) = served
       /\ totalStored = served
       /\ Len(log) > 0 => log[Len(log)].op # "request"

\* page 3 is about to be requested after two pages that took two batches each
C12_Witness ==
  /\ pc = "request" /\ Len(requested) = 2
  /\ server.size > batchSize
  /\ Len(stored[tableName]) = 2 * server.size
  /\ Cardinality(OpsOn(tableName, {"insertBatch"})) = 4

\* a response that is itself a list, or a map without a data field
TerminalShape(r) == IsArray(r) \/ (r.t = "obj" /\ ~HasKey(r.v, "data"))

\* C13: once the first response has come in the direct-array or the
\* single-object shape, no step issues another request; and a direct array of
\* two records ends as one page with its two rows inserted.
C13_TerminalShapeOneRequest ==
  /\ [][(Len(requested) = 1 /\ TerminalShape(response)) => requested' = requested]_vars
  /\ []((pc = "done" /\ Len(requested) = 1 /\ IsArray(response) /\ Len(response.v) = 2)
          => /\ totalFetched = 2
             /\ Len(stored[tableName]) = 2
             /\ Cardinality(OpsOn(tableName, {"insertBatch"})) = 1)

\* an invocation ended after a direct array of two records
C13_Witness ==
  /\ pc = "done" /\ Len(requested) = 1
  /\ response = Arr(<<rPlain, rNotes>>)
  /\ Len(stored[tableName]) = 2

\* an ensureTable call is under way
InEnsure == pc \in {"ensure", "create", "get_columns", "add_column"}

\* C14 (as claimed): in one fetchAndStore invocation ensureTable is called at
\* most once for each destination table, with the first row of the table's
\* first non-empty page: the first record of the first page with records for
\* the parent, the first nested row collected for a child.
C14_EnsureTableOncePerTable ==
  /\ \A t \in TableNames : Cardinality(OpsOn(t, {"tableExists"})) <= 1
  /\ (InEnsure /\ phase = "parent")
       => /\ totalStored = 0
          /\ sampleRow = Obj(flattenRow(pageData[1].v, ""))
  /\ (InEnsure /\ phase = "nested")
       => /\ nestedIdx = 1
          /\ sampleRow = Obj(flattenRow(allNestedData[1].data[1].v, ""))

\* C15 (as claimed): in streaming mode, when a page is about to be requested
\* no row of the pages before it is held in memory: neither the accumulator
\* of fetchPaginated nor the nested-row buffer of fetchAndStore has an entry.
C15_NothingBufferedAcrossPages ==
  (streaming /\ pc = "request")
    => /\ allData = <<>>
       /\ allNestedData = <<>>

\* C16 (as claimed): in streaming mode ensureConnected is invoked in the loop
\* exactly when another 50 pages have been processed (after pages 50, 100,
\* ...), and once more when fetchPaginated returns.
C16_ConnectivityChecks ==
  streaming =>
    /\ (pc = "ensure_conn" /\ connRet = "loop")
         => /\ Len(requested) > 0
            /\ Len(requested) % connectionCheckInterval = 0
    /\ (pc = "request" /\ Len(requested) > 0
          /\ Len(requested) % connectionCheckInterval = 0)
         => log[Len(log)].op = "ensureConnected"
    /\ pc = "after_fetch" => log[Len(log)].op = "ensureConnected"

\* the entry point is over: its function returned or the process exited
MainOver == mpc \in {"ended", "exited"}

\* C17 (as claimed): whenever an entry point that has acquired the connection
\* pool is over, disconnect has been called.
C17_DisconnectOnEveryExit ==
  (MainOver /\ acquired) => released

\* C18 (as claimed): when a run in which a fetchAndStore call failed is over,
\* fetchAndStore has been called for every endpoint without requiresDate and
\* for every dated range of every endpoint with it.
C18_SiblingsStillProcessed ==
  (MainOver /\ \E a \in 1..Len(attempted) : ~attempted[a].ok)
    => \A e \in 1..Len(endpointsToFetch) :
         IF endpointsToFetch[e]
           THEN \A r \in 1..Len(dateRanges) :
                  dateRanges[r] => \E a \in 1..Len(attempted) :
                                     attempted[a].ep = e /\ attempted[a].rg = r
           ELSE \E a \in 1..Len(attempted) : attempted[a].ep = e

\* a representative row that is absent or has no keys
EmptyRow(r) == Falsy(r) \/ (r.t = "obj" /\ Len(r.v) = 0)

\* C19 (as claimed): an ensureTable call whose representative row is absent or
\* has no keys makes no storage call (no tableExists, createTable or
\* addMissingColumns) and leaves the schema as it was.
C19_EmptyRowNoStorageOp ==
  EmptyRow(sampleRow) => (log = <<>> /\ tables = tables0)

\* the number of elements of the array a parent record has at the nested key
ArrayLenAt(row, key) ==
  IF IsArray(Get(row.v, key)) THEN Len(Get(row.v, key).v) ELSE 0
RECURSIVE SumArrayLen(_, _, _)
\* the sum of those numbers over the first n parent records
SumArrayLen(rs, key, n) ==
  IF n = 0 THEN 0 ELSE SumArrayLen(rs, key, n - 1) + ArrayLenAt(rs[n], key)

\* C20: extractNestedData returns as many rows as the arrays at nestedKey have
\* elements in total; element e of the array of parent p is at the position
\* that parent order and then element order give it, carries
\* _parent_<parentKey> equal to that parent's value at parentKey and keeps the
\* other fields of the element; parents without an array there add no row.
C20_NestedExtraction ==
  nestedRows # Undefined =>
    /\ Len(nestedRows.v) = SumArrayLen(argRows, argNestedKey, Len(argRows))
    /\ \A p \in 1..Len(argRows) :
         \A e \in 1..ArrayLenAt(argRows[p], argNestedKey) :
           LET item == Get(argRows[p].v, argNestedKey).v[e]
               out == nestedRows.v[SumArrayLen(argRows, argNestedKey, p - 1) + e]
           IN /\ Get(out.v, "_parent_" \o argParentKey) = Get(argRows[p].v, argParentKey)
              /\ item.t = "obj" =>
                   \A k \in KeySet(item.v) \ {"_parent_" \o argParentKey} :
                     Get(out.v, k) = Get(item.v, k)

\* three parents, two of them with nested arrays and different parent values
C20_Witness ==
  /\ nestedRows # Undefined
  /\ argRows = <<rNested, rPlain, xOddItems>>
  /\ argParentKey = "warehouse_code" /\ argNestedKey = "locations"
  /\ Len(nestedRows.v) = 5

\* a record none of whose fields is an object
NoNestedObject(x) == \A j \in 1..Len(x.v) : x.v[j].v.t # "obj"

\* C21: flattenRow applied to the output of flattenRow returns that output,
\* for every record and in particular for records without nested objects;
\* the output has neither objects nor arrays left in it.
C21_FlattenIdempotent ==
  /\ Len(fnOut) >= 1 =>
       \A j \in 1..Len(fnOut[1].v) : fnOut[1].v[j].v.t \notin {"obj", "arr"}
  /\ Len(fnOut) = 2 =>
       /\ fnOut[2] = fnOut[1]
       /\ NoNestedObject(fnArg) => fnOut[2] = fnOut[1]

\* a record with a field nested two deep was flattened twice
C21_Witness ==
  /\ Len(fnOut) = 2
  /\ ~NoNestedObject(fnArg)
  /\ HasKey(fnOut[1].v, "a_b_c")
  /\ fnOut[1] # fnArg

\* s begins with the shape pat, in which d stands for a digit and every other
\* character for itself
HasShape(s, pat) ==
  /\ Len(s) >= Len(pat)
  /\ \A j \in 1..Len(pat) :
       IF Char(pat, j) = "d" THEN IsDigit(Char(s, j)) ELSE Char(s, j) = Char(pat, j)
\* the column types of a dialect, by kind
TypeName(d, kind) ==
  CASE kind = "bool" -> IF d = "mysql" THEN "TINYINT(1)" ELSE "BOOLEAN"
    [] kind = "decimal" -> IF d = "mysql" THEN "DECIMAL(20,6)" ELSE "NUMERIC(20,6)"
    [] kind = "timestamp" -> IF d = "mysql" THEN "DATETIME" ELSE "TIMESTAMP"
    [] kind = "json" -> IF d = "mysql" THEN "JSON" ELSE "JSONB"
\* the type the ordered policy gives a string
StringPolicy(d, x) ==
  IF Len(x) = 10 /\ HasShape(x, "dddd-dd-dd") THEN "DATE"
  ELSE IF HasShape(x, "dddd-dd-ddTdd:dd") \/ HasShape(x, "dddd-dd-dd dd:dd")
    THEN TypeName(d, "timestamp")
  ELSE IF Len(x) > 255 THEN "TEXT"
  ELSE "VARCHAR(255)"

\* C22: inferColumnType returns a type for every value, and the type is the
\* one the ordered policy names: text for null and undefined, the boolean
\* type for booleans, the one decimal type for every number, and for strings
\* date, timestamp, text above 255 characters, varchar(255) otherwise.
C22_InferPolicy ==
  Len(fnOut) = 1 =>
    LET d == fnArg.d
        value == fnArg.value
        ty == fnOut[1]
    IN /\ ty \in {"TEXT", "DATE", "VARCHAR(255)"}
                 \cup {TypeName(d, kind) : kind \in {"bool", "decimal", "timestamp", "json"}}
       /\ value.t \in {"null", "undef"} => ty = "TEXT"
       /\ value.t = "bool" => ty = TypeName(d, "bool")
       /\ value.t = "num" => ty = TypeName(d, "decimal")
       /\ value.t = "str" => ty = StringPolicy(d, value.v)

\* a timestamp longer than 255 characters was given the timestamp type
C22_Witness ==
  /\ Len(fnOut) = 1
  /\ fnArg.value.t = "str" /\ Len(fnArg.value.v) > 255
  /\ fnOut[1] = "TIMESTAMP"

\* C23: every fetchPaginated call eventually returns or raises, whatever the
\* server does; the loop cannot go on for ever because each return to its top
\* comes with a larger page counter, and the counter at the top never exceeds
\* the ceiling.
C23_Terminates ==
  /\ <>(pc \in {"done", "failed"})
  /\ [](pc = "request" => pageNumber <= PageLimit)
  /\ [][pc' = "request" => pageNumber' > pageNumber]_vars

\* a call against a server that never signals completion has returned
C23_Witness ==
  /\ pc = "done" /\ result # Undefined
  /\ server.kind = "paging" /\ server.avail = Inf /\ server.count = "huge"
  /\ pageNumber = PageLimit + 1

\* the server sends wrapped responses whose count is absent, non-numeric,
\* zero or negative
NoUsableCount ==
  /\ server.kind = "paging"
  /\ server.count \in {"absent", "garbage", "zero", "negative"}

\* C24: without a usable count, every non-empty page is followed by the
\* request for the next one, and the call ends only after the first empty
\* page (having returned every record the server holds) or with the request
\* for page 1000.
C24_UntilEmptyPage ==
  NoUsableCount =>
    /\ (pc = "decide" /\ Len(pageData) > 0 /\ pageNumber < PageLimit)
         => Len(requested) = pageNumber
    /\ (pc = "request" /\ pageNumber > 1)
         => (RecordsIn(response) > 0 /\ pageNumber <= PageLimit)
    /\ pc = "done" =>
         IF server.avail = Inf
           THEN Len(requested) = PageLimit /\ RecordsIn(response) > 0
           ELSE /\ RecordsIn(response) = 0
                /\ Len(requested) = CeilDiv(server.avail, server.size) + 1
                /\ result = Arr(PageOf(server.avail, server.avail, 1))

\* a server with a negative count was read to its empty page
C24_Witness ==
  /\ pc = "done" /\ server.kind = "paging"
  /\ server.count = "negative" /\ server.avail = MaxAvail /\ server.size = 1
  /\ Len(requested) = MaxAvail + 1

\* the latest request was answered, with an empty list or with no payload
EmptyPage ==
  /\ Len(requested) > 0
  /\ \E n \in 1..Len(log) :
       /\ log[n].op = "request" /\ log[n].ok
       /\ \A m \in (n + 1)..Len(log) : log[m].op # "request"
  /\ \/ response = Arr(<<>>)
     \/ /\ response.t = "obj" /\ HasKey(response.v, "data")
        /\ Get(response.v, "data") \in {Null, Arr(<<>>)}

\* C25: a response with an empty list or without payload ends the pagination
\* at once: the page callback does not run for it (nothing is done to the
\* parent table after that request), the page counter keeps the number of the
\* request, and no further page is requested.
C25_EmptyPageStops ==
  /\ [](EmptyPage =>
          /\ pageNumber = requested[Len(requested)]
          /\ pageNumber = Len(requested)
          /\ ~hasMore
          /\ pc \notin {"request", "callback", "decide"}
          /\ \A n \in 1..Len(log) :
               log[n].table = tableName =>
                 \E m \in (n + 1)..Len(log) : log[m].op = "request")
  /\ [][(pc = "request" /\ EmptyPage')
          => (pc' = "ensure_conn" /\ connRet' = "final"
              /\ totalFetched' = totalFetched /\ pageNumber' = pageNumber)]_vars

\* the second page came without payload after a first page that was stored
C25_Witness ==
  /\ EmptyPage /\ pc = "done"
  /\ response = Wrapped(Null, Undefined, Undefined)
  /\ Len(requested) = 2 /\ pageNumber = 2
  /\ Len(stored[tableName]) > 0

MalformedCurrentPage == server.kind = "paging" /\ server.cp \in {"absent", "garbage"}
MalformedCount == server.kind = "paging" /\ server.count \in {"absent", "garbage"}
\* the total the server reports in a well-formed count field
ReportedCount ==
  CASE server.count \in {"str", "num"} -> server.avail
    [] server.count = "huge" -> 100000
    [] server.count = "negative" -> 0 - 1
    [] OTHER -> 0

\* C26: a wrapped response whose current_page or count is missing or not a
\* number does not make the call fail: a malformed current_page is replaced
\* by the loop's page counter, a malformed count by zero, and with count zero
\* the loop goes on until the empty page, returning every record.
C26_MalformedMetadata ==
  /\ []((MalformedCurrentPage \/ MalformedCount) => pc # "failed")
  /\ [][(pc = "decide" /\ isPaginated /\ (MalformedCurrentPage \/ MalformedCount))
          => hasMore' =
               IF MalformedCount \/ ReportedCount <= 0 THEN Len(pageData) > 0
               ELSE IF MalformedCurrentPage
                 THEN pageNumber < CeilDiv(ReportedCount, Len(pageData))
               ELSE hasMore']_vars
  /\ []((MalformedCount /\ server.avail # Inf /\ pc = "done")
          => /\ result = Arr(PageOf(server.avail, server.avail, 1))
             /\ RecordsIn(response) = 0)

\* neither field is a number and every record was returned
C26_Witness ==
  /\ pc = "done" /\ server.kind = "paging"
  /\ server.cp = "garbage" /\ server.count = "garbage"
  /\ server.avail = MaxAvail /\ server.size = MaxSize
  /\ result = Arr(PageOf(MaxAvail, MaxAvail, 1))
  /\ Len(requested) = CeilDiv(MaxAvail, MaxSize) + 1

\* the rows of the parent table are the records served, in the order served
StoredInServedOrder ==
  \A j \in 1..Len(stored[tableName]) : stored[tableName][j] = <<KV("id", Num(j))>>

\* C27: the rows of a page go to insertBatch once each and in page order, in
\* consecutive batches of at most 100 rows taken from that page alone, only
\* the page's last batch being shorter; a batch starts where the completed
\* batches before it ended.
C27_BatchesOfAPage ==
  /\ [](phase = "parent" => StoredInServedOrder)
  /\ []((pc = "insert" /\ phase = "parent") =>
          /\ i % batchSize = 0 /\ i < Len(flattenedData)
          /\ served >= Len(flattenedData)
          /\ Len(stored[tableName]) = served - Len(flattenedData) + i
          /\ flattenedData = FlattenAll(pageData))
  /\ []((pc = "collect" /\ phase = "parent") =>
          (Len(stored[tableName]) = served /\ totalStored = served))
  /\ [][(pc = "insert" /\ phase = "parent" /\ pc' # "failed") =>
          LET before == Len(stored[tableName])
              n == Len(stored'[tableName]) - before
          IN /\ 1 <= n /\ n <= batchSize
             /\ n < batchSize => pc' = "collect"
             /\ pc' = "insert" => (n = batchSize /\ i' = i + n)
             /\ \A j \in 1..n :
                  stored'[tableName][before + j] = flattenedData[i + j]
             /\ SubSeq(stored'[tableName], 1, before) = stored[tableName]]_vars

\* two pages of 101 rows were inserted, each as a batch of 100 and a batch of 1
C27_Witness ==
  /\ pc = "collect" /\ phase = "parent"
  /\ Len(flattenedData) = BigPage /\ Len(requested) = 2
  /\ Len(stored[tableName]) = 2 * BigPage
  /\ StoredInServedOrder
  /\ Cardinality({n \in 1..Len(log) : log[n].op = "insertBatch" /\ log[n].ok}) = 4

\* a call on the Transport Port or the Storage Port that was rejected
\* (getColumns and the probe of ensureConnected catch their own errors and
\* never reject)
FailedCall(e) ==
  /\ ~e.ok
  /\ e.op \in {"request", "tableExists", "createTable", "addColumn", "insertBatch"}

\* C28: a rejected transport or storage call is the last call of the
\* invocation, which ends by raising; and an invocation that raised did so
\* on such a call. In particular no insertBatch follows a failed insertBatch.
C28_FailureEndsInvocation ==
  /\ \A n \in 1..Len(log) : FailedCall(log[n]) => (n = Len(log) /\ pc = "failed")
  /\ pc = "failed" => (Len(log) > 0 /\ FailedCall(log[Len(log)]))

\* the insert of the second page was rejected after the first page was stored
C28_Witness ==
  /\ pc = "failed" /\ Len(requested) = 2
  /\ log[Len(log)].op = "insertBatch" /\ ~log[Len(log)].ok
  /\ log[Len(log)].table = tableName
  /\ Len(stored[tableName]) > 0

\* sequence a is the beginning of sequence b
StartsWith(b, a) == Len(a) <= Len(b) /\ SubSeq(b, 1, Len(a)) = a

RECURSIVE BufferedBefore(_)
\* the rows of the buffered nested entries in front of entry k
BufferedBefore(k) ==
  IF k <= 1 THEN 0 ELSE BufferedBefore(k - 1) + Len(allNestedData[k - 1].data)

\* C29: no step, the failing one included, takes anything back: a table that
\* exists goes on existing with its columns, and the rows inserted stay, in
\* place. After a failure the buffered nested rows not yet inserted stay
\* unwritten: none at all when the parent's ingestion failed, only those of
\* the entries already completed when a child table's did.
C29_NothingUndone ==
  /\ [][\A t \in TableNames :
          /\ StartsWith(stored'[t], stored[t])
          /\ tables[t].exists =>
               (tables'[t].exists /\ StartsWith(tables'[t].cols, tables[t].cols))]_vars
  /\ []((pc = "failed" /\ phase = "parent") => stored[childTable] = <<>>)
  /\ []((pc = "failed" /\ phase = "nested") =>
          /\ Len(stored[childTable]) = BufferedBefore(nestedIdx)
          /\ Len(stored[childTable]) < BufferedBefore(Len(allNestedData) + 1)
          /\ Len(stored[tableName]) = totalStored)

\* the second page's insert was rejected: the table created and the rows of
\* the first page are there, the nested rows buffered from it are not
C29_Witness ==
  /\ pc = "failed" /\ phase = "parent"
  /\ ~tables0[tableName].exists /\ tables[tableName].exists
  /\ Len(stored[tableName]) > 0
  /\ Len(allNestedData) > 0
  /\ stored[childTable] = <<>>
  /\ log[Len(log)].op = "insertBatch"

\* the pool calls a step has added to the history
NewPoolCalls == SubSeq(poolLog', Len(poolLog) + 1, Len(poolLog'))

\* C30: ensureConnected with a pool whose probe is answered makes no other
\* pool call and leaves the pool as it is; with a pool whose probe fails it
\* calls end() on that pool, lets the call settle (a pool whose end() resolved
\* is closed) and only then creates the next pool; without a pool it creates
\* one; on return the adapter's pool is an open one. Nothing else touches the
\* pool, and inside a fetch it runs only between pages: every row received
\* has been inserted and no insert is under way.
C30_EnsureConnected ==
  /\ [][poolLog' # poolLog =>
          /\ StartsWith(poolLog', poolLog)
          /\ IF pool = 0
               THEN /\ NewPoolCalls = <<PoolCall("createPool", pool', TRUE)>>
                    /\ pools' = Append(pools, "open")
             ELSE IF NewPoolCalls[1].ok
               THEN /\ NewPoolCalls = <<PoolCall("query", pool, TRUE)>>
                    /\ pool' = pool /\ pools' = pools
             ELSE /\ Len(NewPoolCalls) = 3
                  /\ NewPoolCalls[1] = PoolCall("query", pool, FALSE)
                  /\ NewPoolCalls[2].op = "end" /\ NewPoolCalls[2].pool = pool
                  /\ NewPoolCalls[3] = PoolCall("createPool", pool', TRUE)
                  /\ pool' # pool
                  /\ Len(pools') = Len(pools) + 1
                  /\ NewPoolCalls[2].ok => pools'[pool] = "closed"
                  /\ \A q \in DOMAIN pools : q # pool => pools'[q] = pools[q]
          /\ pool' = Len(pools') /\ pool' # 0
          /\ pools'[pool'] = "open"]_vars
  /\ [][poolLog' = poolLog => (pool' = pool /\ pools' = pools)]_vars
  /\ [](pc = "ensure_conn" =>
          /\ i >= Len(flattenedData)
          /\ Len(stored[tableName]) = served /\ totalStored = served)
  /\ [][(poolLog' # poolLog /\ pc # "adapter") =>
          (pc = "ensure_conn" /\ stored' = stored /\ tables' = tables)]_vars

\* the check after page 49 found the pool dead and replaced it, and the
\* check at the end of the fetch found the second pool alive
C30_Witness ==
  /\ pc = "done" /\ server.avail = 50
  /\ pool = 2 /\ pools = <<"closed", "open">>
  /\ poolLog = <<PoolCall("query", 1, FALSE), PoolCall("end", 1, TRUE),
                 PoolCall("createPool", 2, TRUE), PoolCall("query", 2, TRUE)>>
  /\ Len(stored[tableName]) = 50

\* C31 (as claimed): once the first ensureTable call for a table has returned
\* in a run (it is made with a row of the table's first non-empty page), no
\* later step of the run gives the table another column.
C31_NoColumnAfterFirstPage ==
  [][\A t \in TableNames :
       (ensured[t] # {} /\ tables[t].exists) => tables'[t].cols = tables[t].cols]_vars

\* C32 (as claimed): whenever insertBatch is about to issue its INSERT, the
\* table exists and has every column the statement names (the keys of the
\* first row of the batch).
C32_InsertColumnsExist ==
  pc = "insert" =>
    /\ tables[CurrentTable].exists
    /\ \A c \in 1..Len(InsertColumns(Batch)) :
         HasColumn(dialect, tables[CurrentTable].cols, InsertColumns(Batch)[c])

\* C34 (as claimed): when the call without a callback has returned, on the
\* responses the call with a callback got before it, the total the first call
\* returned is the length of the list the second returned, and the records
\* the first call passed to its callback are that list.
C34_ModesAgree ==
  (pc = "done" /\ ~streaming) =>
    /\ firstResult = Num(Len(result.v))
    /\ firstHanded = result.v

\* field f of a record flattens to the column a_b: it is named a_b and holds
\* a primitive, or it is named a and holds an object whose field b does
GivesAB(f) ==
  \/ f.k = "a_b" /\ f.v.t \notin {"obj", "arr"}
  \/ f.k = "a" /\ f.v.t = "obj" /\ HasKey(f.v.v, "b")
       /\ Get(f.v.v, "b").t \notin {"obj", "arr"}
\* the value field f gives to the column a_b
ValueAB(f) == IF f.k = "a_b" THEN f.v ELSE Get(f.v.v, "b")
\* the positions of the record's fields that flatten to a_b
PositionsAB == {j \in 1..Len(fnArg.v) : GivesAB(fnArg.v[j])}

\* C35: a record with two fields that both flatten to the column a_b is
\* flattened without error, and the one column a_b of the result holds the
\* value of the later of the two fields.
C35_LaterFieldWins ==
  (Len(fnOut) >= 1 /\ Cardinality(PositionsAB) >= 2) =>
    LET later == CHOOSE j \in PositionsAB : \A k \in PositionsAB : k <= j
    IN /\ Get(fnOut[1].v, "a_b") = ValueAB(fnArg.v[later])
       /\ Cardinality({j \in 1..Len(fnOut[1].v) : fnOut[1].v[j].k = "a_b"}) = 1

\* the nested field came first and the top-level field a_b overwrote it
C35_Witness ==
  /\ Len(fnOut) >= 1
  /\ fnArg = Obj(<<KV("a", Obj(<<KV("b", Num(2))>>)), KV("a_b", Str("x"))>>)
  /\ fnOut[1] = Obj(<<KV("a_b", Str("x"))>>)

\* the fetchAndStore calls made for endpoint e with date range r (0 = none)
AttemptsOf(e, r) ==
  {a \in 1..Len(attempted) : attempted[a].ep = e /\ attempted[a].rg = r}

\* no endpoint with requiresDate is fetched without a range that has both its
\* dates, none without requiresDate is fetched with a range, and the calls
\* are made in endpoint order and, for one endpoint, in range order
FetchedWithDatesInOrder ==
  /\ \A a \in 1..Len(attempted) :
       IF endpointsToFetch[attempted[a].ep]
         THEN attempted[a].rg \in 1..Len(dateRanges) /\ dateRanges[attempted[a].rg]
         ELSE attempted[a].rg = 0
  /\ \A a, b \in 1..Len(attempted) :
       a < b => \/ attempted[a].ep < attempted[b].ep
                \/ attempted[a].ep = attempted[b].ep /\ attempted[a].rg < attempted[b].rg

\* C36 (as claimed): fetchAndStore is never called for a requiresDate
\* endpoint without both dates, and when a run that opened its connection is
\* over it has been called exactly once for every dated range of every
\* requiresDate endpoint, in range order, and exactly once for every other
\* endpoint.
C36_OncePerEndpointAndRange ==
  /\ FetchedWithDatesInOrder
  /\ (MainOver /\ acquired) =>
       \A e \in 1..Len(endpointsToFetch) :
         IF endpointsToFetch[e]
           THEN \A r \in 1..Len(dateRanges) :
                  Cardinality(AttemptsOf(e, r)) = IF dateRanges[r] THEN 1 ELSE 0
           ELSE Cardinality(AttemptsOf(e, 0)) = 1

\* the column query of the addMissingColumns call under way failed, and
\* getColumns returned the empty list
ListingFailed ==
  \E n \in 1..Len(log) :
    /\ log[n].op = "getColumns" /\ ~log[n].ok
    /\ \A m \in (n + 1)..Len(log) : log[m].op = "addColumn"

\* C37 (as claimed): after a failed column query the ensureTable call goes on
\* without error and without re-adding a column: no ADD COLUMN is issued
\* for a column the table has, and the call does not end by raising.
C37_ListingFailureHarmless ==
  /\ (pc = "add_column" /\ ListingFailed) =>
       \A j \in 1..Len(missing) :
         ~HasColumn(dialect, tables[ensTable].cols, missing[j].k)
  /\ (pc = "failed" /\ ListingFailed) =>
       ~HasColumn(dialect, tables[ensTable].cols, log[Len(log)].key)

\* the PostgreSQL name of a MySQL column type
PostgresType(type) ==
  CASE type = "TINYINT(1)" -> "BOOLEAN"
    [] type = "DECIMAL(20,6)" -> "NUMERIC(20,6)"
    [] type = "DATETIME" -> "TIMESTAMP"
    [] type = "JSON" -> "JSONB"
    [] type = "BIGINT" -> "BIGSERIAL"
    [] OTHER -> type
\* column lists that name the same keys in the same order, with types that
\* are each other's counterpart
SameColumns(my, pg) ==
  /\ Len(my) = Len(pg)
  /\ \A j \in 1..Len(my) :
       my[j].name = pg[j].name /\ pg[j].type = PostgresType(my[j].type)
\* every column made from a number of the row has the dialect's decimal type
NumbersDecimal(cols, row, type) ==
  \A j \in 1..Len(cols) :
    (HasKey(row, cols[j].name) /\ Get(row, cols[j].name).t = "num")
      => cols[j].type = type

C39_OneJobAtATime ==
  /\ Cardinality({j \in 1..MaxJobs : InProgress(j)}) <= 1
  /\ \A j \in 1..MaxJobs :
       jobPc[j] = "run" /\ jobTunnel[j] # 0 => jobTunnel[j] \in openTunnels

\* C40 (as claimed): once two concurrent ensureTable calls on the same table,
\* made with different representative rows, have both returned, the table has
\* a column for every key of both rows, whatever the interleaving.
C40_UnionOfKeys ==
  (\A c \in Callers : ensPc[c] = "returned")
    => \A c \in Callers :
         \A n \in 1..Len(ensRow[c].v) :
           /\ tables[tableName].exists
           /\ HasColumn(dialect, tables[tableName].cols, ensRow[c].v[n].k)

\* the calls of an ensureTable call on table t so far: its tableExists query
\* succeeded and none of its statements was rejected
EnsureCompleted(t) ==
  /\ \E n \in 1..Len(log) : log[n].op = "tableExists" /\ log[n].table = t /\ log[n].ok
  /\ \A n \in 1..Len(log) :
       log[n].table = t /\ log[n].op \in {"tableExists", "createTable", "addColumn"}
         => log[n].ok
\* this step issues an insertBatch call
IssuesInsert == Len(log') = Len(log) + 1 /\ log'[Len(log')].op = "insertBatch"

\* C33: in a fetchAndStore invocation every insertBatch call on a table, parent
\* or child, is issued after an ensureTable call of the same invocation for
\* that table has returned normally: the last ensureTable call was for that
\* table, it is not running any more, and none of its statements failed.
C33_EnsureBeforeInsert ==
  [][IssuesInsert =>
       LET t == log'[Len(log')].table
       IN /\ t = CurrentTable
          /\ pc = "insert"
          /\ ensTable = t
          /\ phase = "parent" => tableCreated
          /\ EnsureCompleted(t)]_vars
\* a batch went into a child table
C33_Witness ==
  \E n \in 1..Len(log) :
    log[n].op = "insertBatch" /\ log[n].table # tableName /\ log[n].ok
====
